---- MODULE Spec2Model ----
(***************************************************************************)
(* Prioritized space-time path planning of navette-mapf.                   *)
(*                                                                         *)
(* Two planners live in the repository and both are modelled here:         *)
(*   - solver.py: SpaceTimeAStar.find_path / _has_collision over the       *)
(*     corridor+rooms Environment, with MAPFSolver.solve_multi_robot_path  *)
(*     planning against a list of already planned paths;                   *)
(*   - demo.py: SpaceTimeAStar.plan over a square grid, with a             *)
(*     ReservationTable and MAPFSimulator.plan_all_paths.                  *)
(* A position is a pair <<row, col>> (solver) or <<x, y>> (demo); a path   *)
(* is a sequence of positions, TLA+ index i+1 holding Python index i.      *)
(***************************************************************************)
EXTENDS Integers, Sequences, FiniteSets, TLC

VARIABLES
    planner,            \* which program runs: "solver", "demo" (a planning pass),
                        \* "single", "table", "find_path", "plan", "capped",
                        \* "reservations" (calls on their own), "simulator",
                        \* "find_loop", "plan_loop" (a search turn by turn),
                        \* "replan", "run" (the demo's simulator)
    robots,             \* the input list of robots (records), in input order
    goals,              \* solver: robot id -> goal, for the ids that have one
    idx,                \* number of robots of the sorted order already processed
    paths,              \* robot id -> what the pass stored for the robot
    robot_paths_list,   \* solver: the list of committed paths (obstacles)
    vertex_table,       \* demo: <<time, pos>> -> owning agent id
    edge_table,         \* demo: <<time, <<from, to>>>> -> owning agent id
    returned,           \* history: robot id -> what its search call returned
    query,              \* history: the arguments of the most recent call
    answer,             \* history: what the most recent call returned
    h_cost,             \* the estimate Environment.heuristic gave for the query
    time_elapsed,       \* simulator.py: MAPFSimulator.time_elapsed
    orders,             \* orders.py: OrderManager.orders
    completed_orders,   \* orders.py: OrderManager.completed_orders
    next_order_id,      \* orders.py: OrderManager.next_order_id
    time_step,          \* demo.py: MAPFSimulator.time_step
    robots_waiting      \* demo.py: MAPFSimulator.robots_waiting, id -> wait_until

\* the state of the simulator and its order manager, and of the demo's
\* simulator between its ticks
sim_vars == <<time_elapsed, orders, completed_orders, next_order_id,
              time_step, robots_waiting>>

vars == <<planner, robots, goals, idx, paths, robot_paths_list,
          vertex_table, edge_table, returned, query, answer, h_cost,
          time_elapsed, orders, completed_orders, next_order_id,
          time_step, robots_waiting>>

\* no simulator runs: its state is the one OrderManager.__init__ and the
\* demo's plan_all_paths leave
NoSimulator ==
    /\ time_elapsed = 0
    /\ orders = <<>>
    /\ completed_orders = <<>>
    /\ next_order_id = 1
    /\ time_step = 0
    /\ robots_waiting = <<>>

(***************************************************************************)
(* Bounds and program constants.                                           *)
(***************************************************************************)
GRID_WIDTH == 5
GRID_HEIGHT == 2

\* find_path's default max_time
DEFAULT_MAX_TIME == 50

\* the longest obstacle path handed to the two collision checks
MaxObstacleLen == 2

\* The horizon the planning pass of solver.py searches with.  The source
\* uses the default max_time; the model scales it down so that searches
\* cut off by the horizon occur on the inputs below.
MaxTime == 5

\* demo.py's GRID_SIZE (10 in the source) and MAX_TIME (100 in the source),
\* scaled down likewise.
GRID_SIZE == 3
MAX_TIME == 4

\* demo.py: the ceiling on len(open_set) in plan's loop condition
OPEN_SET_CAP == 10000

----------------------------------------------------------------------------
(***************************************************************************)
(* Generic helpers.                                                        *)
(***************************************************************************)
Abs(n) == IF n < 0 THEN -n ELSE n

Min2(a, b) == IF a < b THEN a ELSE b

Range(s) == {s[i] : i \in DOMAIN s}

\* Python's path[-1]
Last(s) == s[Len(s)]

\* Python's path[k:] (k a Python index)
DropFirst(s, k) == SubSeq(s, k + 1, Len(s))

\* Lexicographic "less than" on integer sequences, as Python compares
\* tuples and lists: the first differing element decides, then the length.
RECURSIVE LexLess(_, _)
LexLess(a, b) ==
    IF b = <<>> THEN FALSE
    ELSE IF a = <<>> THEN TRUE
    ELSE IF Head(a) # Head(b) THEN Head(a) < Head(b)
    ELSE LexLess(Tail(a), Tail(b))

----------------------------------------------------------------------------
(***************************************************************************)
(* environment.py: Environment                                             *)
(***************************************************************************)
Positions == (0 .. GRID_HEIGHT - 1) \X (0 .. GRID_WIDTH - 1)

is_valid_position(pos) ==
    /\ 0 <= pos[1] /\ pos[1] < GRID_HEIGHT
    /\ 0 <= pos[2] /\ pos[2] < GRID_WIDTH

\* The list of (position, cost) moves, in the order the code appends them.
get_valid_moves(pos) ==
    IF pos[1] = 1 THEN
        (IF pos[2] > 0 THEN << <<<<1, pos[2] - 1>>, 1>> >> ELSE <<>>)
        \o (IF pos[2] < GRID_WIDTH - 1 THEN << <<<<1, pos[2] + 1>>, 1>> >> ELSE <<>>)
        \o << <<<<0, pos[2]>>, 1>> >>
        \o << <<<<1, pos[2]>>, 1>> >>
    ELSE IF pos[1] = 0 THEN
        << <<<<1, pos[2]>>, 1>>, <<<<0, pos[2]>>, 1>> >>
    ELSE <<>>

manhattan_distance(pos1, pos2) == Abs(pos1[1] - pos2[1]) + Abs(pos1[2] - pos2[2])

\* (mutant) a room goal counts three steps from the corridor
heuristic_SteepRoom(current, goal) ==
    IF goal[1] = 0
    THEN Abs(current[2] - goal[2]) + (IF current[1] = 0 THEN 1 ELSE 3)
    ELSE manhattan_distance(current, goal)

heuristic(current, goal) ==
    IF goal[1] = 0
    THEN Abs(current[2] - goal[2]) + (IF current[1] = 0 THEN 1 ELSE 2)
    ELSE manhattan_distance(current, goal)

----------------------------------------------------------------------------
(***************************************************************************)
(* heapq, as both planners use it.  A heap is a sequence; heap[i] has its  *)
(* children at 2i and 2i+1 (Python positions i-1, 2i-1, 2i).  Every item   *)
(* carries a field key, an integer sequence, and item "<" is LexLess on    *)
(* the keys: solver.py's AStarNode.__lt__ compares f_cost alone (key =     *)
(* <<f_cost>>), demo.py pushes tuples (f, g, node, path).                  *)
(***************************************************************************)
\* (mutant) the comparison is turned round: the heap yields the largest key
NodeLt_Greater(a, b) == LexLess(b.key, a.key)

NodeLt(a, b) == LexLess(a.key, b.key)

\* heapq._siftdown(heap, startpos, pos) with newitem = heap[pos] held aside
RECURSIVE SiftDown(_, _, _, _)
SiftDown(heap, startpos, pos, newitem) ==
    IF pos > startpos /\ NodeLt(newitem, heap[pos \div 2])
    THEN SiftDown([heap EXCEPT ![pos] = heap[pos \div 2]], startpos, pos \div 2, newitem)
    ELSE [heap EXCEPT ![pos] = newitem]

\* heapq._siftup(heap, pos): bubble the smaller child up to a leaf, then
\* sift the held item down (towards the root) from there.
RECURSIVE SiftUp(_, _, _, _)
SiftUp(heap, startpos, pos, newitem) ==
    LET childpos == 2 * pos
        rightpos == childpos + 1
        c == IF rightpos <= Len(heap) /\ ~NodeLt(heap[childpos], heap[rightpos])
             THEN rightpos ELSE childpos
    IN  IF childpos <= Len(heap)
        THEN SiftUp([heap EXCEPT ![pos] = heap[c]], startpos, c, newitem)
        ELSE SiftDown(heap, startpos, pos, newitem)

heappush(heap, item) == SiftDown(Append(heap, item), 1, Len(heap) + 1, item)

\* heappop returns the pair <<smallest item, remaining heap>>
heappop(heap) ==
    LET lastelt == heap[Len(heap)]
        rest == SubSeq(heap, 1, Len(heap) - 1)
    IN  IF rest = <<>> THEN <<lastelt, <<>>>>
        ELSE <<heap[1], SiftUp(rest, 1, 1, lastelt)>>

----------------------------------------------------------------------------
(***************************************************************************)
(* solver.py: SpaceTimeAStar                                               *)
(***************************************************************************)
\* (mutant) the vertex check left out: only swaps are rejected
PathCollides_NoVertexCheck(current_pos, next_pos, next_time, other_path) ==
    /\ next_time > 0
    /\ next_time < Len(other_path)
    /\ current_pos = other_path[next_time + 1]
    /\ next_pos = other_path[next_time]

\* one other path's verdict on the move current_pos -> next_pos arriving at
\* Python time index next_time
PathCollides(current_pos, next_pos, next_time, other_path) ==
    \/ /\ next_time < Len(other_path)
       /\ other_path[next_time + 1] = next_pos
    \/ /\ next_time > 0
       /\ next_time - 1 < Len(other_path)
       /\ next_time < Len(other_path)
       /\ current_pos = other_path[next_time + 1]
       /\ next_pos = other_path[next_time]

has_collision(current_pos, next_pos, next_time, other_robot_paths) ==
    \E k \in DOMAIN other_robot_paths :
        PathCollides(current_pos, next_pos, next_time, other_robot_paths[k])

\* (mutant) the open set is ordered by f_cost rounded down to an even number
AStarNode_CoarseOrder(position, time, g_cost, f_cost, path) ==
    [position |-> position, time |-> time, g_cost |-> g_cost,
     f_cost |-> f_cost, path |-> path, key |-> <<f_cost \div 2>>]

AStarNode(position, time, g_cost, f_cost, path) ==
    [position |-> position, time |-> time, g_cost |-> g_cost,
     f_cost |-> f_cost, path |-> path, key |-> <<f_cost>>]

\* the for loop over get_valid_moves(current.position), from move number k on
RECURSIVE PushMoves(_, _, _, _, _, _, _)
PushMoves(open_set, closed_set, current, moves, k, goal, other_robot_paths) ==
    IF k > Len(moves) THEN open_set
    ELSE
        LET next_pos == moves[k][1]
            move_cost == moves[k][2]
            next_time == current.time + 1
            g_cost == current.g_cost + move_cost
            node == AStarNode(next_pos, next_time, g_cost,
                              g_cost + heuristic(next_pos, goal),
                              Append(current.path, current.position))
            skip == \/ has_collision(current.position, next_pos, next_time,
                                     other_robot_paths)
                    \/ <<next_pos, next_time>> \in closed_set
        IN  PushMoves(IF skip THEN open_set ELSE heappush(open_set, node),
                      closed_set, current, moves, k + 1, goal, other_robot_paths)

\* (mutant) the goal test does not apply to the start node
FindTurn_GoalNotAtStart(st, goal, other_robot_paths, max_time) ==
    IF st.done THEN st
    ELSE IF st.open_set = <<>> THEN [st EXCEPT !.done = TRUE, !.result = <<>>]
    ELSE
        LET popped == heappop(st.open_set)
            current == popped[1]
            state == <<current.position, current.time>>
        IN  IF current.position = goal /\ current.time > 0
            THEN [st EXCEPT !.open_set = popped[2], !.done = TRUE,
                            !.result = Append(current.path, current.position)]
            ELSE IF state \in st.closed_set
            THEN [st EXCEPT !.open_set = popped[2]]
            ELSE IF current.time >= max_time
            THEN [st EXCEPT !.open_set = popped[2],
                            !.closed_set = st.closed_set \cup {state}]
            ELSE [st EXCEPT !.open_set =
                                PushMoves(popped[2], st.closed_set \cup {state},
                                          current, get_valid_moves(current.position),
                                          1, goal, other_robot_paths),
                            !.closed_set = st.closed_set \cup {state}]

\* (mutant) the horizon test lets the nodes at max_time be expanded
FindTurn_HorizonOffByOne(st, goal, other_robot_paths, max_time) ==
    IF st.done THEN st
    ELSE IF st.open_set = <<>> THEN [st EXCEPT !.done = TRUE, !.result = <<>>]
    ELSE
        LET popped == heappop(st.open_set)
            current == popped[1]
            state == <<current.position, current.time>>
        IN  IF current.position = goal
            THEN [st EXCEPT !.open_set = popped[2], !.done = TRUE,
                            !.result = Append(current.path, current.position)]
            ELSE IF state \in st.closed_set
            THEN [st EXCEPT !.open_set = popped[2]]
            ELSE IF current.time > max_time
            THEN [st EXCEPT !.open_set = popped[2],
                            !.closed_set = st.closed_set \cup {state}]
            ELSE [st EXCEPT !.open_set =
                                PushMoves(popped[2], st.closed_set \cup {state},
                                          current, get_valid_moves(current.position),
                                          1, goal, other_robot_paths),
                            !.closed_set = st.closed_set \cup {state}]

\* (mutant) a popped node that is already closed is left on the open set
FindTurn_KeepsPopped(st, goal, other_robot_paths, max_time) ==
    IF st.done THEN st
    ELSE IF st.open_set = <<>> THEN [st EXCEPT !.done = TRUE, !.result = <<>>]
    ELSE
        LET popped == heappop(st.open_set)
            current == popped[1]
            state == <<current.position, current.time>>
        IN  IF current.position = goal
            THEN [st EXCEPT !.open_set = popped[2], !.done = TRUE,
                            !.result = Append(current.path, current.position)]
            ELSE IF state \in st.closed_set
            THEN st
            ELSE IF current.time >= max_time
            THEN [st EXCEPT !.open_set = popped[2],
                            !.closed_set = st.closed_set \cup {state}]
            ELSE [st EXCEPT !.open_set =
                                PushMoves(popped[2], st.closed_set \cup {state},
                                          current, get_valid_moves(current.position),
                                          1, goal, other_robot_paths),
                            !.closed_set = st.closed_set \cup {state}]

\* One turn of the while loop of find_path.  The search state st holds the
\* open set, the closed set, whether the function has returned and what it
\* returned; a search that has returned stays as it is.
FindTurn(st, goal, other_robot_paths, max_time) ==
    IF st.done THEN st
    ELSE IF st.open_set = <<>> THEN [st EXCEPT !.done = TRUE, !.result = <<>>]
    ELSE
        LET popped == heappop(st.open_set)
            current == popped[1]
            state == <<current.position, current.time>>
        IN  IF current.position = goal
            THEN [st EXCEPT !.open_set = popped[2], !.done = TRUE,
                            !.result = Append(current.path, current.position)]
            ELSE IF state \in st.closed_set
            THEN [st EXCEPT !.open_set = popped[2]]
            ELSE IF current.time >= max_time
            THEN [st EXCEPT !.open_set = popped[2],
                            !.closed_set = st.closed_set \cup {state}]
            ELSE [st EXCEPT !.open_set =
                                PushMoves(popped[2], st.closed_set \cup {state},
                                          current, get_valid_moves(current.position),
                                          1, goal, other_robot_paths),
                            !.closed_set = st.closed_set \cup {state}]

\* n turns of the loop, the first half before the second
RECURSIVE FindTurns(_, _, _, _, _)
FindTurns(st, n, goal, other_robot_paths, max_time) ==
    IF n <= 1 THEN FindTurn(st, goal, other_robot_paths, max_time)
    ELSE CHOOSE after \in
            {IF half.done THEN half
             ELSE FindTurns(half, n - n \div 2, goal, other_robot_paths, max_time) :
                half \in {FindTurns(st, n \div 2, goal, other_robot_paths,
                                    max_time)}} : TRUE

\* turns of the loop until the function returns
RECURSIVE FindUntilDone(_, _, _, _, _)
FindUntilDone(st, n, goal, other_robot_paths, max_time) ==
    CHOOSE final \in
        {IF after.done THEN after
         ELSE FindUntilDone(after, 2 * n, goal, other_robot_paths, max_time) :
            after \in {FindTurns(st, n, goal, other_robot_paths, max_time)}} : TRUE

\* the while loop of find_path
FindLoop(open_set, closed_set, goal, other_robot_paths, max_time) ==
    FindUntilDone([open_set |-> open_set, closed_set |-> closed_set,
                   done |-> FALSE, result |-> <<>>],
                  1, goal, other_robot_paths, max_time).result

\* (mutant) a search that runs dry hands back the start instead of []
find_path_PartialOnFailure(start, goal, other_robot_paths, max_time) ==
    LET found == FindLoop(heappush(<<>>, AStarNode(start, 0, 0,
                                                  heuristic(start, goal), <<>>)),
                          {}, goal, other_robot_paths, max_time)
    IN  IF found = <<>> THEN <<start>> ELSE found

\* (mutant) the returned path lacks the cell left by the first move
find_path_SkipsSecond(start, goal, other_robot_paths, max_time) ==
    LET found == FindLoop(heappush(<<>>, AStarNode(start, 0, 0,
                                                  heuristic(start, goal), <<>>)),
                          {}, goal, other_robot_paths, max_time)
    IN  IF Len(found) >= 3 THEN <<found[1]>> \o SubSeq(found, 3, Len(found))
        ELSE found

\* find_path: the returned list, <<>> when no path was found
find_path(start, goal, other_robot_paths, max_time) ==
    FindLoop(heappush(<<>>, AStarNode(start, 0, 0, heuristic(start, goal), <<>>)),
             {}, goal, other_robot_paths, max_time)

----------------------------------------------------------------------------
(***************************************************************************)
(* demo.py: ReservationTable.  vertex_table[time][(x, y)] and              *)
(* edge_table[time][(from, to)] are functions on the keys <<time, pos>>    *)
(* and <<time, <<from, to>>>> that were written.                           *)
(***************************************************************************)
\* (mutant) a reserved cell is taken for its owner too
is_vertex_free_OwnerBlocked(vt, pos, time, agent_id) == <<time, pos>> \notin DOMAIN vt

\* (mutant) a reserved cell is reported free whoever owns it
is_vertex_free_IgnoreOwner(vt, pos, time, agent_id) == TRUE

is_vertex_free(vt, pos, time, agent_id) ==
    IF <<time, pos>> \in DOMAIN vt THEN vt[<<time, pos>>] = agent_id ELSE TRUE

\* (mutant) an edge is taken when another agent owns it in either direction
is_edge_free_EitherDirection(et, from_pos, to_pos, time, agent_id) ==
    /\ <<time, <<to_pos, from_pos>>>> \in DOMAIN et
            => et[<<time, <<to_pos, from_pos>>>>] = agent_id
    /\ <<time, <<from_pos, to_pos>>>> \in DOMAIN et
            => et[<<time, <<from_pos, to_pos>>>>] = agent_id

\* (mutant) the edge looked up is the one travelled, not its reverse
is_edge_free_SameDirection(et, from_pos, to_pos, time, agent_id) ==
    IF <<time, <<from_pos, to_pos>>>> \in DOMAIN et
    THEN et[<<time, <<from_pos, to_pos>>>>] = agent_id
    ELSE TRUE

is_edge_free(et, from_pos, to_pos, time, agent_id) ==
    LET reverse_edge == <<to_pos, from_pos>>
    IN  IF <<time, reverse_edge>> \in DOMAIN et
        THEN et[<<time, reverse_edge>>] = agent_id
        ELSE TRUE

\* the keys reserve_path writes: path[i] at start_time + i, and for i > 0
\* the edge (path[i-1], path[i]) at start_time + i
PathVertexKeys(path, start_time) ==
    {<<start_time + i - 1, path[i]>> : i \in DOMAIN path}

PathEdgeKeys(path, start_time) ==
    {<<start_time + i - 1, <<path[i - 1], path[i]>>>> : i \in DOMAIN path \ {1}}

\* every write of one call stores the same agent_id, so the loop's result
\* is the old table overwritten on the written keys
WriteAll(table, keys, agent_id) ==
    [k \in DOMAIN table \cup keys |-> IF k \in keys THEN agent_id ELSE table[k]]

\* (mutant) a key the agent already owns is released by a second write
reserve_vertices_Toggle(vt, path, start_time, agent_id) ==
    LET keys == PathVertexKeys(path, start_time)
        owned == {k \in keys \cap DOMAIN vt : vt[k] = agent_id}
    IN  [k \in (DOMAIN vt \cup keys) \ owned |->
            IF k \in keys THEN agent_id ELSE vt[k]]

reserve_vertices(vt, path, start_time, agent_id) ==
    WriteAll(vt, PathVertexKeys(path, start_time), agent_id)

\* (mutant) reserve_path without its edge writes
reserve_edges_Forgotten(et, path, start_time, agent_id) == et

reserve_edges(et, path, start_time, agent_id) ==
    WriteAll(et, PathEdgeKeys(path, start_time), agent_id)

\* clear_agent_reservations, vertex part: every key of agent_id is deleted
clear_vertices(vt, agent_id) ==
    [k \in {key \in DOMAIN vt : vt[key] # agent_id} |-> vt[k]]

\* (mutant) clear_agent_reservations without its edge part
clear_edges_Forgotten(et, agent_id) == et

\* clear_agent_reservations, edge part
clear_edges(et, agent_id) ==
    [k \in {key \in DOMAIN et : et[key] # agent_id} |-> et[k]]

(***************************************************************************)
(* demo.py: SpaceTimeAStar over the GRID_SIZE x GRID_SIZE grid.            *)
(***************************************************************************)
Cells == (0 .. GRID_SIZE - 1) \X (0 .. GRID_SIZE - 1)

demo_heuristic(pos, goal) == Abs(pos[1] - goal[1]) + Abs(pos[2] - goal[2])

\* (mutant) the four moves without the wait in place
get_neighbors_NoWait(pos) ==
    LET Try(dx, dy) ==
            IF /\ 0 <= pos[1] + dx /\ pos[1] + dx < GRID_SIZE
               /\ 0 <= pos[2] + dy /\ pos[2] + dy < GRID_SIZE
            THEN << <<pos[1] + dx, pos[2] + dy>> >> ELSE <<>>
    IN  Try(0, 1) \o Try(1, 0) \o Try(0, -1) \o Try(-1, 0)

\* neighbour cells in the order the code lists them; the wait comes last
get_neighbors(pos) ==
    LET Try(dx, dy) ==
            IF /\ 0 <= pos[1] + dx /\ pos[1] + dx < GRID_SIZE
               /\ 0 <= pos[2] + dy /\ pos[2] + dy < GRID_SIZE
            THEN << <<pos[1] + dx, pos[2] + dy>> >> ELSE <<>>
    IN  Try(0, 1) \o Try(1, 0) \o Try(0, -1) \o Try(-1, 0) \o <<pos>>

\* the heap entry (f_cost, g_cost, SpaceTimeNode(x, y, time), path); tuples
\* compare field by field, SpaceTimeNode.__lt__ by time, x, y, and the
\* paths (flat holds the path's coordinates in order) element by element
OpenEntry(f_cost, g_cost, pos, time, path) ==
    [f_cost |-> f_cost, g_cost |-> g_cost, pos |-> pos, time |-> time,
     path |-> path.cells, flat |-> path.flat,
     key |-> <<f_cost, g_cost, time, pos[1], pos[2]>> \o path.flat]

RECURSIVE PushNeighbors(_, _, _, _, _, _, _, _, _)
PushNeighbors(open_set, closed_set, current, nbrs, k, goal, agent_id, vt, et) ==
    IF k > Len(nbrs) THEN open_set
    ELSE
        LET next_pos == nbrs[k]
            next_time == current.time + 1
            new_g_cost == current.g_cost + 1
            entry == OpenEntry(new_g_cost + demo_heuristic(next_pos, goal),
                               new_g_cost, next_pos, next_time,
                               [cells |-> Append(current.path, current.pos),
                                flat |-> current.flat \o current.pos])
            skip == \/ next_time >= MAX_TIME
                    \/ <<next_pos, next_time>> \in closed_set
                    \/ ~is_vertex_free(vt, next_pos, next_time, agent_id)
                    \/ ~is_edge_free(et, current.pos, next_pos, next_time, agent_id)
        IN  PushNeighbors(IF skip THEN open_set ELSE heappush(open_set, entry),
                          closed_set, current, nbrs, k + 1, goal, agent_id, vt, et)

\* plan's result: Python's None is [found |-> FALSE], a list is
\* [found |-> TRUE, path |-> the list]
NoPath == [found |-> FALSE, path |-> <<>>]

\* One turn of the while loop of plan under the ceiling cap on
\* len(open_set).  The search state st holds the open set, the closed set,
\* whether the function has returned and what it returned; a search that
\* has returned stays as it is.
PlanTurn(st, goal, agent_id, vt, et, cap) ==
    IF st.done THEN st
    ELSE IF st.open_set = <<>> \/ Len(st.open_set) >= cap
    THEN [st EXCEPT !.done = TRUE, !.result = NoPath]
    ELSE
        LET popped == heappop(st.open_set)
            current == popped[1]
            state == <<current.pos, current.time>>
        IN  IF state \in st.closed_set
            THEN [st EXCEPT !.open_set = popped[2]]
            ELSE IF current.pos = goal
            THEN [st EXCEPT !.open_set = popped[2],
                            !.closed_set = st.closed_set \cup {state},
                            !.done = TRUE,
                            !.result = [found |-> TRUE,
                                        path |-> Append(current.path, current.pos)]]
            ELSE [st EXCEPT !.open_set =
                                PushNeighbors(popped[2], st.closed_set \cup {state},
                                              current, get_neighbors(current.pos),
                                              1, goal, agent_id, vt, et),
                            !.closed_set = st.closed_set \cup {state}]

\* n turns of the loop, the first half before the second
RECURSIVE PlanTurns(_, _, _, _, _, _, _)
PlanTurns(st, n, goal, agent_id, vt, et, cap) ==
    IF n <= 1 THEN PlanTurn(st, goal, agent_id, vt, et, cap)
    ELSE CHOOSE after \in
            {IF half.done THEN half
             ELSE PlanTurns(half, n - n \div 2, goal, agent_id, vt, et, cap) :
                half \in {PlanTurns(st, n \div 2, goal, agent_id, vt, et, cap)}} :
            TRUE

\* turns of the loop until the function returns
RECURSIVE PlanUntilDone(_, _, _, _, _, _, _)
PlanUntilDone(st, n, goal, agent_id, vt, et, cap) ==
    CHOOSE final \in
        {IF after.done THEN after
         ELSE PlanUntilDone(after, 2 * n, goal, agent_id, vt, et, cap) :
            after \in {PlanTurns(st, n, goal, agent_id, vt, et, cap)}} : TRUE

\* the while loop of plan
PlanLoop(open_set, closed_set, goal, agent_id, vt, et) ==
    PlanUntilDone([open_set |-> open_set, closed_set |-> closed_set,
                   done |-> FALSE, result |-> NoPath],
                  1, goal, agent_id, vt, et, OPEN_SET_CAP).result

plan(start, goal, start_time, agent_id, vt, et) ==
    PlanLoop(<<OpenEntry(0, 0, start, start_time, [cells |-> <<>>, flat |-> <<>>])>>,
             {}, goal, agent_id, vt, et)

----------------------------------------------------------------------------
(***************************************************************************)
(* The planning passes.  sorted(robots, key=priority) is stable: robots of *)
(* equal priority keep their order in the input list.                      *)
(***************************************************************************)
\* (mutant) the sort runs from the largest priority number down
ComesBefore_Descending(rs, i, j) ==
    \/ rs[i].priority > rs[j].priority
    \/ rs[i].priority = rs[j].priority /\ i < j

ComesBefore(rs, i, j) ==
    \/ rs[i].priority < rs[j].priority
    \/ rs[i].priority = rs[j].priority /\ i < j

\* sorted_robots as the sequence of indexes into the input list
SortedIdx(rs) ==
    [k \in 1 .. Len(rs) |->
        CHOOSE i \in 1 .. Len(rs) :
            Cardinality({j \in 1 .. Len(rs) : ComesBefore(rs, j, i)}) = k - 1]

\* dict assignment d[k] = v
Put(d, k, v) == [x \in DOMAIN d \cup {k} |-> IF x = k THEN v ELSE d[x]]

\* solver.py, solve_multi_robot_path: the value stored in paths[robot.id]
\* for the path find_path returned
StoredPath(robot, path) == IF path # <<>> THEN path ELSE <<robot.position>>

\* solver.py, solve_multi_robot_path: robot_paths_list after the robot
ObstaclesAfter(list, path) == IF path # <<>> THEN Append(list, path) ELSE list

\* (mutant) a failed search throws away the paths stored so far
SolveCommit_FailureDropsEarlier(st, robot, gs, path) ==
    [paths |-> IF path # <<>> THEN Put(st.paths, robot.id, path)
               ELSE Put(<<>>, robot.id, <<robot.position>>),
     robot_paths_list |-> ObstaclesAfter(st.robot_paths_list, path),
     returned |-> Put(st.returned, robot.id, path),
     query |-> [agent |-> robot.id, start |-> robot.position, goal |-> gs[robot.id],
                other_robot_paths |-> st.robot_paths_list],
     answer |-> path]

\* solver.py, solve_multi_robot_path: what the loop body does with the
\* path find_path returned.  st holds the locals paths and
\* robot_paths_list (and the history).
SolveCommit(st, robot, gs, path) ==
    [paths |-> Put(st.paths, robot.id, StoredPath(robot, path)),
     robot_paths_list |-> ObstaclesAfter(st.robot_paths_list, path),
     returned |-> Put(st.returned, robot.id, path),
     query |-> [agent |-> robot.id, start |-> robot.position, goal |-> gs[robot.id],
                other_robot_paths |-> st.robot_paths_list],
     answer |-> path]

\* solver.py, solve_multi_robot_path: the body of the loop for one robot
SolveIter(st, robot, gs) ==
    IF robot.id \notin DOMAIN gs THEN st
    ELSE SolveCommit(st, robot, gs,
                     find_path(robot.position, gs[robot.id],
                               st.robot_paths_list, MaxTime))

RECURSIVE SolveFrom(_, _, _, _)
SolveFrom(st, rs, gs, k) ==
    IF k > Len(rs) THEN st
    ELSE SolveFrom(SolveIter(st, rs[SortedIdx(rs)[k]], gs), rs, gs, k + 1)

\* solve_multi_robot_path(robots, goals): the returned dict
solve_multi_robot_path(rs, gs) ==
    SolveFrom([paths |-> <<>>, robot_paths_list |-> <<>>, returned |-> <<>>,
               query |-> <<>>, answer |-> <<>>], rs, gs, 1).paths

\* demo.py, plan_all_paths: robot.path after planning; path[1:] of the
\* found path, [] when plan returned None
PathAfterPlan(res) == IF res.found THEN Tail(res.path) ELSE <<>>

\* (mutant) a failed search leaves the robot the path it had before
PlanCommit_KeepsOldPath(st, i, res) ==
    LET robot == st.robots[i]
    IN  [robots |-> [st.robots EXCEPT ![i] =
                        [@ EXCEPT !.path = IF res.found THEN Tail(res.path)
                                           ELSE robot.path,
                                  !.pos = robot.start]],
         vertex_table |->
            IF res.found
            THEN reserve_vertices(st.vertex_table, res.path, 0, robot.id)
            ELSE st.vertex_table,
         edge_table |->
            IF res.found
            THEN reserve_edges(st.edge_table, res.path, 0, robot.id)
            ELSE st.edge_table,
         returned |-> Put(st.returned, robot.id, res),
         query |-> [agent |-> robot.id, start |-> robot.start, goal |-> robot.goal,
                    vertex_table |-> st.vertex_table, edge_table |-> st.edge_table],
         answer |-> res]

\* demo.py, plan_all_paths: what the loop body does with plan's result res
\* for the robot at index i of the list.  st holds the robots and the
\* reservation table (and the history).
PlanCommit(st, i, res) ==
    LET robot == st.robots[i]
    IN  [robots |-> [st.robots EXCEPT ![i] =
                        [@ EXCEPT !.path = PathAfterPlan(res), !.pos = robot.start]],
         vertex_table |->
            IF res.found
            THEN reserve_vertices(st.vertex_table,
                                  <<robot.start>> \o PathAfterPlan(res), 0, robot.id)
            ELSE st.vertex_table,
         edge_table |->
            IF res.found
            THEN reserve_edges(st.edge_table,
                               <<robot.start>> \o PathAfterPlan(res), 0, robot.id)
            ELSE st.edge_table,
         returned |-> Put(st.returned, robot.id, res),
         query |-> [agent |-> robot.id, start |-> robot.start, goal |-> robot.goal,
                    vertex_table |-> st.vertex_table, edge_table |-> st.edge_table],
         answer |-> res]

\* demo.py, plan_all_paths: the body of the loop for the robot at index i
PlanIter(st, i) ==
    PlanCommit(st, i, plan(st.robots[i].start, st.robots[i].goal, 0, st.robots[i].id,
                           st.vertex_table, st.edge_table))

RECURSIVE PlanFrom(_, _)
PlanFrom(st, k) ==
    IF k > Len(st.robots) THEN st
    ELSE PlanFrom(PlanIter(st, SortedIdx(st.robots)[k]), k + 1)

\* plan_all_paths on the robots rs: the robots as the pass leaves them
plan_all_paths(rs) ==
    PlanFrom([robots |-> rs, vertex_table |-> <<>>, edge_table |-> <<>>,
              returned |-> <<>>, query |-> <<>>, answer |-> <<>>], 1).robots

----------------------------------------------------------------------------
(***************************************************************************)
(* Inputs.  A pass is run on three robots; their ids, priorities, start    *)
(* cells and goals are drawn from the sets below.  Start cells are         *)
(* pairwise distinct.                                                      *)
(***************************************************************************)
\* (ids, priorities) of the input list, position by position
Orderings ==
    { <<<<1, 2, 3>>, <<1, 2, 3>>>>,
      <<<<1, 2, 3>>, <<3, 1, 2>>>>,
      <<<<3, 1, 2>>, <<1, 1, 2>>>> }

Injective(f) == \A a, b \in DOMAIN f : a # b => f[a] # f[b]

SolverStarts == {<<1, 1>>, <<1, 2>>, <<1, 3>>, <<0, 3>>}
SolverGoals == {<<0, 1>>, <<0, 3>>, <<1, 3>>}

DemoStarts == {<<0, 1>>, <<1, 0>>, <<2, 1>>, <<1, 1>>}
DemoGoals == {<<0, 1>>, <<2, 1>>, <<1, 1>>}

\* a path left on a robot by an earlier pass
StalePath == <<<<0, 0>>>>

InitSolver ==
    /\ planner = "solver"
    /\ \E o \in Orderings :
       \E st \in {f \in [1 .. 3 -> SolverStarts] : Injective(f)} :
          robots = [i \in 1 .. 3 |->
                      [id |-> o[1][i], position |-> st[i], priority |-> o[2][i]]]
    /\ \E ids \in SUBSET {1, 2, 3} : goals \in [ids -> SolverGoals]
    /\ idx = 0
    /\ paths = <<>>
    /\ robot_paths_list = <<>>
    /\ vertex_table = <<>>
    /\ edge_table = <<>>
    /\ returned = <<>>
    /\ query = <<>>
    /\ answer = <<>>
    /\ h_cost = 0
    /\ NoSimulator

InitDemo ==
    /\ planner = "demo"
    /\ \E o \in Orderings :
       \E st \in {f \in [1 .. 3 -> DemoStarts] : Injective(f)} :
       \E gl \in [1 .. 3 -> DemoGoals] :
       \E old \in {<<>>, StalePath} :
          robots = [i \in 1 .. 3 |->
                      [id |-> o[1][i], start |-> st[i], goal |-> gl[i],
                       pos |-> st[i], path |-> old, priority |-> o[2][i]]]
    /\ goals = <<>>
    /\ idx = 0
    /\ paths = <<>>
    /\ robot_paths_list = <<>>
    /\ vertex_table = <<>>
    /\ edge_table = <<>>
    /\ returned = <<>>
    /\ query = <<>>
    /\ answer = <<>>
    /\ h_cost = 0
    /\ NoSimulator

Init == InitSolver \/ InitDemo

\* solver.py, solve_multi_robot_path: one iteration of the loop over
\* sorted_robots
SolveStep ==
    /\ planner = "solver"
    /\ idx < Len(robots)
    /\ \E st \in {SolveIter([paths |-> paths, robot_paths_list |-> robot_paths_list,
                              returned |-> returned, query |-> query,
                              answer |-> answer],
                             robots[SortedIdx(robots)[idx + 1]], goals)} :
           /\ paths' = st.paths
           /\ robot_paths_list' = st.robot_paths_list
           /\ returned' = st.returned
           /\ query' = st.query
           /\ answer' = st.answer
    /\ idx' = idx + 1
    /\ UNCHANGED <<planner, robots, goals, vertex_table, edge_table, h_cost>>
    /\ UNCHANGED sim_vars

\* demo.py, plan_all_paths: one iteration of the loop over sorted_robots
PlanStep ==
    /\ planner = "demo"
    /\ idx < Len(robots)
    /\ \E st \in {PlanIter([robots |-> robots, vertex_table |-> vertex_table,
                             edge_table |-> edge_table, returned |-> returned,
                             query |-> query, answer |-> answer],
                            SortedIdx(robots)[idx + 1])} :
           /\ robots' = st.robots
           /\ vertex_table' = st.vertex_table
           /\ edge_table' = st.edge_table
           /\ returned' = st.returned
           /\ query' = st.query
           /\ answer' = st.answer
    /\ idx' = idx + 1
    /\ UNCHANGED <<planner, goals, paths, robot_paths_list, h_cost>>
    /\ UNCHANGED sim_vars

Next == SolveStep \/ PlanStep

Spec == Init /\ [][Next]_vars

----------------------------------------------------------------------------
(***************************************************************************)
(* A single robot in the empty Environment: the heuristic is evaluated on  *)
(* a pair of valid positions, then find_path is called on the pair with    *)
(* no other paths and the default horizon.                                 *)
(***************************************************************************)
InitSingle ==
    /\ planner = "single"
    /\ \E start \in Positions : \E goal \in Positions :
          query = [start |-> start, goal |-> goal, other_robot_paths |-> <<>>]
    /\ robots = <<>>
    /\ goals = <<>>
    /\ idx = 0
    /\ paths = <<>>
    /\ robot_paths_list = <<>>
    /\ vertex_table = <<>>
    /\ edge_table = <<>>
    /\ returned = <<>>
    /\ answer = <<>>
    /\ h_cost = 0
    /\ NoSimulator

\* environment.py, heuristic(start, goal)
HeuristicStep ==
    /\ planner = "single"
    /\ idx = 0
    /\ h_cost' = heuristic(query.start, query.goal)
    /\ idx' = 1
    /\ UNCHANGED <<planner, robots, goals, paths, robot_paths_list, vertex_table,
                   edge_table, returned, query, answer>>
    /\ UNCHANGED sim_vars

\* solver.py, find_path(start, goal)
FindStep ==
    /\ planner = "single"
    /\ idx = 1
    /\ answer' = find_path(query.start, query.goal, query.other_robot_paths,
                           DEFAULT_MAX_TIME)
    /\ idx' = 2
    /\ UNCHANGED <<planner, robots, goals, paths, robot_paths_list, vertex_table,
                   edge_table, returned, query, h_cost>>
    /\ UNCHANGED sim_vars

NextSingle == HeuristicStep \/ FindStep

SpecSingle == InitSingle /\ [][NextSingle]_vars

----------------------------------------------------------------------------
(***************************************************************************)
(* The two collision checks side by side.  Obstacle paths that start at    *)
(* time 0 are appended to the list solver.py's _has_collision reads and    *)
(* reserved, at start_time 0, in the table demo.py's is_vertex_free and    *)
(* is_edge_free read; then one move is put to both.                        *)
(***************************************************************************)
\* the k-th obstacle path is reserved under the k-th id
ObstacleIds == {1, 2}

\* the ids a move is checked for
QueryAgents == {0}

TableCells == {<<0, 0>>, <<0, 1>>, <<1, 1>>}

ObstaclePaths == UNION {[1 .. n -> TableCells] : n \in 1 .. MaxObstacleLen}

InitTable ==
    /\ planner = "table"
    /\ robots = <<>>
    /\ goals = <<>>
    /\ idx = 0
    /\ paths = <<>>
    /\ robot_paths_list = <<>>
    /\ vertex_table = <<>>
    /\ edge_table = <<>>
    /\ returned = <<>>
    /\ query = <<>>
    /\ answer = <<>>
    /\ h_cost = 0
    /\ NoSimulator

\* solver.py: robot_paths_list.append(path); demo.py: reserve_path(path, 0, id)
AddObstacle ==
    /\ planner = "table"
    /\ idx = 0
    /\ Len(robot_paths_list) + 1 \in ObstacleIds
    /\ \E path \in ObstaclePaths :
          /\ robot_paths_list' = Append(robot_paths_list, path)
          /\ vertex_table' = reserve_vertices(vertex_table, path, 0,
                                              Len(robot_paths_list) + 1)
          /\ edge_table' = reserve_edges(edge_table, path, 0,
                                         Len(robot_paths_list) + 1)
    /\ UNCHANGED <<planner, robots, goals, idx, paths, returned, query, answer,
                   h_cost>>
    /\ UNCHANGED sim_vars

\* one move from_pos -> to_pos arriving at time, put to _has_collision and
\* to is_vertex_free / is_edge_free
CheckMove ==
    /\ planner = "table"
    /\ idx = 0
    /\ \E from_pos \in TableCells : \E to_pos \in TableCells :
       \E time \in 1 .. MaxObstacleLen + 1 : \E agent \in QueryAgents :
          /\ query' = [from_pos |-> from_pos, to_pos |-> to_pos, time |-> time,
                       agent |-> agent]
          /\ answer' = [list |-> has_collision(from_pos, to_pos, time,
                                               robot_paths_list),
                        vertex_free |-> is_vertex_free(vertex_table, to_pos,
                                                       time, agent),
                        edge_free |-> is_edge_free(edge_table, from_pos, to_pos,
                                                   time, agent)]
    /\ idx' = 1
    /\ UNCHANGED <<planner, robots, goals, paths, robot_paths_list,
                   vertex_table, edge_table, returned, h_cost>>
    /\ UNCHANGED sim_vars

NextTable == AddObstacle \/ CheckMove

SpecTable == InitTable /\ [][NextTable]_vars

----------------------------------------------------------------------------
(***************************************************************************)
(* The reservation table on its own.  Paths are reserved at a start time,  *)
(* the k-th one under the k-th id; the last call may be repeated with the  *)
(* same arguments; an agent's reservations may be cleared; the table may   *)
(* be asked about any cell, move, time and agent.  returned names the last *)
(* call, query holds its arguments (and the table before it).              *)
(***************************************************************************)
ReserveIds == {1, 2}

StartTimes == {0, 1}

AskTimes == 0 .. MaxObstacleLen + 1

InitReserve ==
    /\ planner = "reservations"
    /\ robots = <<>>
    /\ goals = <<>>
    /\ idx = 0
    /\ paths = <<>>
    /\ robot_paths_list = <<>>
    /\ vertex_table = <<>>
    /\ edge_table = <<>>
    /\ returned = <<>>
    /\ query = <<>>
    /\ answer = <<>>
    /\ h_cost = 0
    /\ NoSimulator

\* demo.py, reserve_path(path, start_time, agent_id)
ReservePath ==
    /\ planner = "reservations"
    /\ returned \in {<<>>, <<"reserve_path">>}
    /\ idx + 1 \in ReserveIds
    /\ \E path \in ObstaclePaths : \E start_time \in StartTimes :
          /\ vertex_table' = reserve_vertices(vertex_table, path, start_time, idx + 1)
          /\ edge_table' = reserve_edges(edge_table, path, start_time, idx + 1)
          /\ query' = [path |-> path, start_time |-> start_time, agent |-> idx + 1,
                       vertex_table |-> vertex_table, edge_table |-> edge_table]
    /\ idx' = idx + 1
    /\ returned' = <<"reserve_path">>
    /\ UNCHANGED <<planner, robots, goals, paths, robot_paths_list, answer, h_cost>>
    /\ UNCHANGED sim_vars

\* demo.py, reserve_path called again with the arguments of the last call
ReserveAgain ==
    /\ planner = "reservations"
    /\ returned = <<"reserve_path">>
    /\ vertex_table' = reserve_vertices(vertex_table, query.path, query.start_time,
                                        query.agent)
    /\ edge_table' = reserve_edges(edge_table, query.path, query.start_time,
                                   query.agent)
    /\ query' = [query EXCEPT !.vertex_table = vertex_table,
                              !.edge_table = edge_table]
    /\ returned' = <<"reserve_path", "reserve_path">>
    /\ UNCHANGED <<planner, robots, goals, idx, paths, robot_paths_list, answer,
                   h_cost>>
    /\ UNCHANGED sim_vars

\* demo.py, clear_agent_reservations(agent_id)
ClearAgent ==
    /\ planner = "reservations"
    /\ returned = <<"reserve_path">>
    /\ \E agent \in ReserveIds :
          /\ vertex_table' = clear_vertices(vertex_table, agent)
          /\ edge_table' = clear_edges(edge_table, agent)
          /\ query' = [agent |-> agent, vertex_table |-> vertex_table,
                       edge_table |-> edge_table]
    /\ returned' = <<"clear_agent_reservations">>
    /\ UNCHANGED <<planner, robots, goals, idx, paths, robot_paths_list, answer,
                   h_cost>>
    /\ UNCHANGED sim_vars

\* demo.py, is_vertex_free(to_pos, time, agent) and
\* is_edge_free(from_pos, to_pos, time, agent)
AskFree ==
    /\ planner = "reservations"
    /\ returned \in {<<"reserve_path">>, <<"clear_agent_reservations">>}
    /\ \E from_pos \in TableCells : \E to_pos \in TableCells :
       \E time \in AskTimes : \E agent \in ReserveIds :
          /\ query' = [from_pos |-> from_pos, to_pos |-> to_pos, time |-> time,
                       agent |-> agent]
          /\ answer' = [vertex_free |-> is_vertex_free(vertex_table, to_pos,
                                                       time, agent),
                        edge_free |-> is_edge_free(edge_table, from_pos, to_pos,
                                                   time, agent)]
    /\ returned' = <<"is_free">>
    /\ UNCHANGED <<planner, robots, goals, idx, paths, robot_paths_list,
                   vertex_table, edge_table, h_cost>>
    /\ UNCHANGED sim_vars

NextReserve == ReservePath \/ ReserveAgain \/ ClearAgent \/ AskFree

SpecReserve == InitReserve /\ [][NextReserve]_vars

----------------------------------------------------------------------------
(***************************************************************************)
(* The two topologies and the two searches on positions that need not be   *)
(* valid: the neighbour function is applied to the start, then the search  *)
(* is called on the pair, against no other path and an empty table.        *)
(***************************************************************************)
ProbePositions ==
    {<<1, 0>>, <<0, 2>>, <<1, 1>>, <<2, 1>>, <<1, 5>>, <<-1, 0>>, <<0, -1>>}

\* demo.py: the bounds test get_neighbors puts to a cell
in_grid(pos) ==
    /\ 0 <= pos[1] /\ pos[1] < GRID_SIZE
    /\ 0 <= pos[2] /\ pos[2] < GRID_SIZE

InitProbe ==
    /\ planner \in {"find_path", "plan"}
    /\ \E start \in ProbePositions : \E goal \in ProbePositions :
          query = [start |-> start, goal |-> goal]
    /\ robots = <<>>
    /\ goals = <<>>
    /\ idx = 0
    /\ paths = <<>>
    /\ robot_paths_list = <<>>
    /\ vertex_table = <<>>
    /\ edge_table = <<>>
    /\ returned = <<>>
    /\ answer = <<>>
    /\ h_cost = 0
    /\ NoSimulator

\* environment.py, get_valid_moves(start)
MovesStep ==
    /\ planner = "find_path"
    /\ idx = 0
    /\ returned' = get_valid_moves(query.start)
    /\ idx' = 1
    /\ UNCHANGED <<planner, robots, goals, paths, robot_paths_list, vertex_table,
                   edge_table, query, answer, h_cost>>
    /\ UNCHANGED sim_vars

\* demo.py, get_neighbors(SpaceTimeNode(start, 0))
NeighborsStep ==
    /\ planner = "plan"
    /\ idx = 0
    /\ returned' = get_neighbors(query.start)
    /\ idx' = 1
    /\ UNCHANGED <<planner, robots, goals, paths, robot_paths_list, vertex_table,
                   edge_table, query, answer, h_cost>>
    /\ UNCHANGED sim_vars

\* solver.py, find_path(start, goal, [], max_time)
FindProbeStep ==
    /\ planner = "find_path"
    /\ idx = 1
    /\ answer' = [found |-> find_path(query.start, query.goal, <<>>, MaxTime) # <<>>,
                  path |-> find_path(query.start, query.goal, <<>>, MaxTime)]
    /\ idx' = 2
    /\ UNCHANGED <<planner, robots, goals, paths, robot_paths_list, vertex_table,
                   edge_table, returned, query, h_cost>>
    /\ UNCHANGED sim_vars

\* demo.py, plan(start, goal, 0, agent_id, ReservationTable())
PlanProbeStep ==
    /\ planner = "plan"
    /\ idx = 1
    /\ answer' = plan(query.start, query.goal, 0, 0, vertex_table, edge_table)
    /\ idx' = 2
    /\ UNCHANGED <<planner, robots, goals, paths, robot_paths_list, vertex_table,
                   edge_table, returned, query, h_cost>>
    /\ UNCHANGED sim_vars

NextProbe == MovesStep \/ NeighborsStep \/ FindProbeStep \/ PlanProbeStep

SpecProbe == InitProbe /\ [][NextProbe]_vars

----------------------------------------------------------------------------
(***************************************************************************)
(* plan under a ceiling on len(open_set).  The search is called for an     *)
(* agent on a start cell and a goal that is a cell or lies outside the     *)
(* grid, on an empty table or on one where another agent holds the goal    *)
(* cell at every time up to HeldUntil, under the source's ceiling or the   *)
(* scaled one.  ExitOf records how the while loop was left.                *)
(***************************************************************************)
\* the scaled ceiling on len(open_set)
NodeCap == 4

\* the last time at which the other agent holds the goal cell
HeldUntil == 2

OutsideGoal == <<GRID_SIZE, GRID_SIZE>>

\* how the loop of plan was left in the final search state st: by the
\* return at the goal, by an empty open set, or by the ceiling
ExitOf(st) ==
    IF st.result.found THEN "goal"
    ELSE IF st.open_set = <<>> THEN "empty"
    ELSE "cap"

InitCap ==
    /\ planner = "capped"
    /\ \E start \in Cells : \E goal \in Cells \cup {OutsideGoal} :
       \E cap \in {NodeCap, OPEN_SET_CAP} :
          query = [start |-> start, goal |-> goal, cap |-> cap]
    /\ \E held \in BOOLEAN :
          vertex_table =
              IF held /\ query.goal \in Cells
              THEN reserve_vertices(<<>>, [t \in 1 .. HeldUntil + 1 |-> query.goal], 0, 1)
              ELSE <<>>
    /\ edge_table =
          IF vertex_table # <<>>
          THEN reserve_edges(<<>>, [t \in 1 .. HeldUntil + 1 |-> query.goal], 0, 1)
          ELSE <<>>
    /\ robots = <<>>
    /\ goals = <<>>
    /\ idx = 0
    /\ paths = <<>>
    /\ robot_paths_list = <<>>
    /\ returned = <<>>
    /\ answer = <<>>
    /\ h_cost = 0
    /\ NoSimulator

\* demo.py, plan(start, goal, 0, 0, reservation_table) with the ceiling
\* query.cap in the loop condition
CapPlanStep ==
    /\ planner = "capped"
    /\ idx = 0
    /\ \E st \in {PlanUntilDone(
                     [open_set |-> <<OpenEntry(0, 0, query.start, 0,
                                               [cells |-> <<>>, flat |-> <<>>])>>,
                      closed_set |-> {}, done |-> FALSE, result |-> NoPath],
                     1, query.goal, 0, vertex_table, edge_table, query.cap)} :
           /\ answer' = st.result
           /\ returned' = <<ExitOf(st)>>
    /\ idx' = 1
    /\ UNCHANGED <<planner, robots, goals, paths, robot_paths_list, vertex_table,
                   edge_table, query, h_cost>>
    /\ UNCHANGED sim_vars

NextCap == CapPlanStep

SpecCap == InitCap /\ [][NextCap]_vars

----------------------------------------------------------------------------
(***************************************************************************)
(* simulator.py and orders.py: the two robots of MAPFSimulator executing   *)
(* orders.  One tick is _simulation_step: the clock advances, an order     *)
(* between two different rooms may be generated, _assign_orders gives the  *)
(* first pending order to the best idle robot, and _move_robots moves the  *)
(* robots along their paths.  A robot is a record with the fields of the   *)
(* Robot dataclass; path_index is the Python index.  Python's None is the  *)
(* string "None".                                                          *)
(***************************************************************************)
\* the ticks a run is followed for, and the orders it generates at most
MaxTicks == 8
MaxOrders == 2

\* simulator.py: the number of timesteps an idle robot blocks its cell for
IDLE_BLOCK == 20

\* environment.py: ROOMS
ROOMS == <<"in", "A", "B", "C", "out">>

\* the rooms orders are generated between
OrderRooms == {"in", "B", "out"}

\* environment.py, find_room_position
find_room_position(room_name) ==
    <<0, (CHOOSE col \in DOMAIN ROOMS : ROOMS[col] = room_name) - 1>>

\* orders.py, generate_random_order: the order appended
Order(id, from_room, to_room, current_time) ==
    [id |-> id, from_room |-> from_room, to_room |-> to_room,
     request_time |-> current_time, status |-> "pending",
     assigned_robot |-> "None", start_time |-> "None", completion_time |-> "None"]

\* the indexes in the set as a list, in list order
InOrder(indexes) ==
    [k \in 1 .. Cardinality(indexes) |->
        CHOOSE i \in indexes : Cardinality({j \in indexes : j < i}) = k - 1]

\* (mutant) the pending orders, newest first
get_pending_orders_NewestFirst(os) ==
    LET pending == InOrder({k \in DOMAIN os : os[k].status = "pending"})
    IN  [k \in DOMAIN pending |-> pending[Len(pending) + 1 - k]]

\* orders.py, get_pending_orders, as indexes into orders
get_pending_orders(os) == InOrder({k \in DOMAIN os : os[k].status = "pending"})

\* orders.py, get_best_robot_for_order: total_distance of one robot
total_distance(robot, from_room_pos) ==
    Abs(robot.position[2] - from_room_pos[2])
        + (IF robot.position[1] = 1 THEN 1 ELSE 2)

\* orders.py, get_best_robot_for_order: the first robot of the list sorted
\* by (distance, priority); the sort is stable.  available_robots holds
\* indexes into rs.
get_best_robot_for_order(rs, order, available_robots) ==
    LET from_room_pos == find_room_position(order.from_room)
        SortKey(k) == <<total_distance(rs[available_robots[k]], from_room_pos),
                        rs[available_robots[k]].priority>>
        first == CHOOSE k \in DOMAIN available_robots :
                    \A j \in DOMAIN available_robots :
                        \/ LexLess(SortKey(k), SortKey(j))
                        \/ SortKey(k) = SortKey(j) /\ k <= j
    IN  available_robots[first]

\* simulator.py, _get_other_robot_paths
RECURSIVE OtherPathsFrom(_, _, _)
OtherPathsFrom(rs, exclude_robot_id, k) ==
    IF k > Len(rs) THEN <<>>
    ELSE (IF rs[k].id = exclude_robot_id THEN <<>>
          ELSE IF rs[k].status = "moving" /\ rs[k].path # <<>>
          THEN << <<rs[k].position>> \o DropFirst(rs[k].path, rs[k].path_index) >>
          ELSE IF rs[k].status = "idle"
          THEN << [t \in 1 .. IDLE_BLOCK |-> rs[k].position] >>
          ELSE <<>>)
         \o OtherPathsFrom(rs, exclude_robot_id, k + 1)

get_other_robot_paths(rs, exclude_robot_id) == OtherPathsFrom(rs, exclude_robot_id, 1)

\* solver.py, find_single_robot_path
find_single_robot_path(position, goal, other_robot_paths) ==
    find_path(position, goal, other_robot_paths, DEFAULT_MAX_TIME)

\* simulator.py, _assign_orders: the path given to the robot for the two
\* legs, <<>> when one of the two searches fails
full_path(position, from_pos, to_pos, other_robot_paths) ==
    CHOOSE whole \in
        {IF path_to_pickup = <<>> THEN <<>>
         ELSE CHOOSE joined \in
                {IF path_to_destination = <<>> THEN <<>>
                 ELSE SubSeq(path_to_pickup, 1, Len(path_to_pickup) - 1)
                          \o path_to_destination :
                    path_to_destination \in
                        {find_single_robot_path(from_pos, to_pos, other_robot_paths)}} :
                TRUE :
            path_to_pickup \in
                {find_single_robot_path(position, from_pos, other_robot_paths)}} : TRUE

\* simulator.py, _assign_orders on the robots rs and the orders os
assign_orders(rs, os, now) ==
    LET pending_orders == get_pending_orders(os)
        available_robots == InOrder({k \in DOMAIN rs : rs[k].status = "idle"})
        unchanged == [robots |-> rs, orders |-> os]
    IN  IF pending_orders = <<>> \/ available_robots = <<>> THEN unchanged
        ELSE
            LET o == pending_orders[1]
                best == get_best_robot_for_order(rs, os[o], available_robots)
            IN  CHOOSE after \in
                    {IF path = <<>> THEN unchanged
                     ELSE [robots |-> [rs EXCEPT ![best] =
                                          [@ EXCEPT !.path = path, !.path_index = 0,
                                                    !.status = "moving",
                                                    !.is_waiting = FALSE]],
                           orders |-> [os EXCEPT ![o] =
                                          [@ EXCEPT !.status = "assigned",
                                                    !.assigned_robot = rs[best].id,
                                                    !.start_time = now]]] :
                        path \in {full_path(rs[best].position,
                                            find_room_position(os[o].from_room),
                                            find_room_position(os[o].to_room),
                                            get_other_robot_paths(rs, rs[best].id))}} :
                    TRUE

\* simulator.py, _move_robots: the robot has an intended move
intends(robot) ==
    robot.status = "moving" /\ robot.path # <<>> /\ robot.path_index < Len(robot.path)

\* simulator.py, _move_robots: intended_moves[robot.id]
next_pos(robot) == robot.path[robot.path_index + 1]

\* (mutant) a robot standing on the cell counts as contending for it
conflicting_robots_CountsOccupants(rs, pos_key) ==
    InOrder({k \in DOMAIN rs : \/ intends(rs[k]) /\ next_pos(rs[k]) = pos_key
                               \/ rs[k].position = pos_key})

\* simulator.py, _move_robots: position_conflicts[pos_key], as indexes
conflicting_robots(rs, pos_key) ==
    InOrder({k \in DOMAIN rs : intends(rs[k]) /\ next_pos(rs[k]) = pos_key})

\* (mutant) the robot with the largest priority number goes first
highest_priority_robot_LargestNumber(rs, conflicting) ==
    conflicting[CHOOSE k \in DOMAIN conflicting :
                    \A j \in DOMAIN conflicting :
                        \/ rs[conflicting[k]].priority > rs[conflicting[j]].priority
                        \/ /\ rs[conflicting[k]].priority = rs[conflicting[j]].priority
                           /\ k <= j]

\* simulator.py, _move_robots: min(conflicting_robots, key=priority), the
\* first of the list among those of the smallest priority number
highest_priority_robot(rs, conflicting) ==
    conflicting[CHOOSE k \in DOMAIN conflicting :
                    \A j \in DOMAIN conflicting :
                        \/ rs[conflicting[k]].priority < rs[conflicting[j]].priority
                        \/ /\ rs[conflicting[k]].priority = rs[conflicting[j]].priority
                           /\ k <= j]

\* (mutant) the first ASSIGNED order is taken, whichever robot it names
find_order_by_robot_AnyRobot(os, robot_id) ==
    LET found == InOrder({k \in DOMAIN os : os[k].status = "assigned"})
    IN  IF found = <<>> THEN 0 ELSE found[1]

\* orders.py, find_order_by_robot: index of the order, 0 for None
find_order_by_robot(os, robot_id) ==
    LET found == InOrder({k \in DOMAIN os : /\ os[k].status = "assigned"
                                             /\ os[k].assigned_robot = robot_id})
    IN  IF found = <<>> THEN 0 ELSE found[1]

\* the list without its element at index k
RemoveAt(list, k) == SubSeq(list, 1, k - 1) \o SubSeq(list, k + 1, Len(list))

\* orders.py, complete_order on the order at index k
complete_order(st, k, now) ==
    [st EXCEPT !.completed_orders =
                   Append(st.completed_orders,
                          [st.orders[k] EXCEPT
                              !.completion_time = now - st.orders[k].request_time,
                              !.status = "completed"]),
               !.orders = RemoveAt(st.orders, k)]

\* (mutant) the end of the path is noticed one entry late
MoveOne_FinishesLate(st, before, k, now) ==
    LET robot == st.robots[k]
        conflicting == conflicting_robots(before, next_pos(before[k]))
    IN  IF ~intends(before[k])
        THEN [st EXCEPT !.robots[k].is_waiting = FALSE]
        ELSE IF /\ Len(conflicting) > 1
                /\ robot.id # before[highest_priority_robot(before, conflicting)].id
        THEN [st EXCEPT !.robots[k].is_waiting = TRUE]
        ELSE IF robot.path_index + 1 > Len(robot.path)
        THEN LET arrived == [st EXCEPT !.robots[k] =
                                [robot EXCEPT !.position = next_pos(before[k]),
                                              !.path = <<>>, !.path_index = 0,
                                              !.status = "idle",
                                              !.is_waiting = FALSE]]
                 order == find_order_by_robot(st.orders, robot.id)
             IN  IF order = 0 THEN arrived ELSE complete_order(arrived, order, now)
        ELSE [st EXCEPT !.robots[k] =
                 [robot EXCEPT !.position = next_pos(before[k]),
                               !.path_index = robot.path_index + 1,
                               !.is_waiting = FALSE]]

\* simulator.py, _move_robots: the second loop's body for the robot at
\* index k; before holds the robots as the first loop saw them
MoveOne(st, before, k, now) ==
    LET robot == st.robots[k]
        conflicting == conflicting_robots(before, next_pos(before[k]))
    IN  IF ~intends(before[k])
        THEN [st EXCEPT !.robots[k].is_waiting = FALSE]
        ELSE IF /\ Len(conflicting) > 1
                /\ robot.id # before[highest_priority_robot(before, conflicting)].id
        THEN [st EXCEPT !.robots[k].is_waiting = TRUE]
        ELSE IF robot.path_index + 1 >= Len(robot.path)
        THEN LET arrived == [st EXCEPT !.robots[k] =
                                [robot EXCEPT !.position = next_pos(before[k]),
                                              !.path = <<>>, !.path_index = 0,
                                              !.status = "idle",
                                              !.is_waiting = FALSE]]
                 order == find_order_by_robot(st.orders, robot.id)
             IN  IF order = 0 THEN arrived ELSE complete_order(arrived, order, now)
        ELSE [st EXCEPT !.robots[k] =
                 [robot EXCEPT !.position = next_pos(before[k]),
                               !.path_index = robot.path_index + 1,
                               !.is_waiting = FALSE]]

RECURSIVE MoveFrom(_, _, _, _)
MoveFrom(st, before, k, now) ==
    IF k > Len(before) THEN st
    ELSE MoveFrom(MoveOne(st, before, k, now), before, k + 1, now)

\* simulator.py, _move_robots
move_robots(rs, os, done, now) ==
    MoveFrom([robots |-> rs, orders |-> os, completed_orders |-> done], rs, 1, now)

InitSimulator ==
    /\ planner = "simulator"
    /\ robots = << [id |-> 1, position |-> <<1, 0>>, path |-> <<>>, path_index |-> 0,
                    priority |-> 1, status |-> "idle", is_waiting |-> FALSE],
                   [id |-> 2, position |-> <<1, 4>>, path |-> <<>>, path_index |-> 0,
                    priority |-> 2, status |-> "idle", is_waiting |-> FALSE] >>
    /\ goals = <<>>
    /\ idx = 0
    /\ paths = <<>>
    /\ robot_paths_list = <<>>
    /\ vertex_table = <<>>
    /\ edge_table = <<>>
    /\ returned = <<>>
    /\ query = <<>>
    /\ answer = <<>>
    /\ h_cost = 0
    /\ NoSimulator

\* simulator.py, _simulation_step.  generated is <<>> when the random draw
\* generates no order, else the two rooms drawn.  query keeps the robots
\* as _move_robots found them.
TickWith(generated) ==
    /\ generated # <<>> =>
          /\ generated[1] # generated[2]
          /\ next_order_id <= MaxOrders
    /\ \E now \in {time_elapsed + 1} :
       \E os \in {IF generated = <<>> THEN orders
                  ELSE Append(orders, Order(next_order_id, generated[1],
                                            generated[2], now))} :
       \E assigned \in {assign_orders(robots, os, now)} :
       \E moved \in {move_robots(assigned.robots, assigned.orders,
                                 completed_orders, now)} :
          /\ time_elapsed' = now
          /\ next_order_id' = IF generated = <<>> THEN next_order_id
                              ELSE next_order_id + 1
          /\ robots' = moved.robots
          /\ orders' = moved.orders
          /\ completed_orders' = moved.completed_orders
          /\ query' = [robots |-> assigned.robots]
    /\ UNCHANGED <<planner, goals, idx, paths, robot_paths_list, vertex_table,
                   edge_table, returned, answer, h_cost, time_step,
                   robots_waiting>>

SimulationStep ==
    /\ planner = "simulator"
    /\ time_elapsed < MaxTicks
    /\ \E generated \in {<<>>} \cup {<<a, b>> : a \in OrderRooms, b \in OrderRooms} :
          TickWith(generated)

NextSimulator == SimulationStep

SpecSimulator == InitSimulator /\ [][NextSimulator]_vars

----------------------------------------------------------------------------
(***************************************************************************)
(* What a pass has produced so far.                                        *)
(***************************************************************************)
\* indexes (into robots) of the robots the loop has processed
Processed == {SortedIdx(robots)[k] : k \in 1 .. idx}

\* the robots that have a resulting path
Planned ==
    IF planner = "solver"
    THEN {i \in Processed : robots[i].id \in DOMAIN paths}
    ELSE Processed

\* robot i's resulting path indexed from time 0, start included
TimedPath(i) ==
    IF planner = "solver"
    THEN paths[robots[i].id]
    ELSE <<robots[i].start>> \o robots[i].path

\* the start cell of robot i
StartOf(i) == IF planner = "solver" THEN robots[i].position ELSE robots[i].start

\* the goal of the planned robot i
GoalOf(i) == IF planner = "solver" THEN goals[robots[i].id] ELSE robots[i].goal

\* whether robot i's search found a path
Found(i) ==
    IF planner = "solver"
    THEN returned[robots[i].id] # <<>>
    ELSE returned[robots[i].id].found

\* the path a lone robot would get from start to goal
AlonePath(start, goal) ==
    IF planner = "solver"
    THEN find_path(start, goal, <<>>, MaxTime)
    ELSE plan(start, goal, 0, 0, <<>>, <<>>).path

PassDone == idx = Len(robots)

----------------------------------------------------------------------------
\* C1: in one planning pass from pairwise distinct start cells (solver.py's
\* solve_multi_robot_path and demo.py's plan_all_paths), two distinct
\* robots' resulting paths, read from time 0 with the start included, never
\* hold the same cell at the same time index inside both paths.
C1_VertexConflictFree ==
    \A i, j \in Planned :
        i # j =>
            \A t \in 1 .. Min2(Len(TimedPath(i)), Len(TimedPath(j))) :
                TimedPath(i)[t] # TimedPath(j)[t]

\* a finished solver pass in which a robot that found a path had to leave
\* the path it would take alone, because that one runs into an earlier path
C1_Witness ==
    /\ planner = "solver"
    /\ PassDone
    /\ \E i, j \in Planned :
        /\ i # j /\ Found(i) /\ Found(j)
        /\ TimedPath(j) # AlonePath(StartOf(j), GoalOf(j))
        /\ \E t \in 2 .. Min2(Len(TimedPath(i)), Len(AlonePath(StartOf(j), GoalOf(j)))) :
              TimedPath(i)[t] = AlonePath(StartOf(j), GoalOf(j))[t]

\* C2: in one planning pass no two distinct robots' resulting paths swap
\* cells between consecutive time indexes; and when two robots are planned
\* head-on (each one's goal is the other's start, one move away, and one of
\* them is planned first of all), the one planned first gets the direct
\* one-step crossing and the other one's path is not the direct crossing.
SwapFree ==
    \A i, j \in Planned :
        i # j =>
            \A t \in 2 .. Min2(Len(TimedPath(i)), Len(TimedPath(j))) :
                ~(/\ TimedPath(i)[t - 1] = TimedPath(j)[t]
                  /\ TimedPath(i)[t] = TimedPath(j)[t - 1])

\* robot i is the first robot planned, robot j is planned too, each one's
\* goal is the other one's start, and the two cells are one move apart
HeadOn(i, j) ==
    /\ {i, j} \subseteq Planned /\ i # j
    /\ \A k \in Planned : k # i => ComesBefore(robots, i, k)
    /\ GoalOf(i) = StartOf(j) /\ GoalOf(j) = StartOf(i)
    /\ AlonePath(StartOf(i), GoalOf(i)) = <<StartOf(i), StartOf(j)>>

C2_SwapConflictFree ==
    /\ SwapFree
    /\ \A i, j \in Planned :
          HeadOn(i, j) =>
              /\ TimedPath(i) = <<StartOf(i), StartOf(j)>>
              /\ TimedPath(j) # <<StartOf(j), StartOf(i)>>

\* a finished pass of exactly two planned robots, head-on, in which the
\* second one found a way round
C2_Witness ==
    /\ PassDone
    /\ \E i, j \in Planned : HeadOn(i, j) /\ Planned = {i, j} /\ Found(j)

----------------------------------------------------------------------------
\* the input list rs without the robots at the indexes in drop
RECURSIVE WithoutFrom(_, _, _)
WithoutFrom(rs, drop, k) ==
    IF k > Len(rs) THEN <<>>
    ELSE (IF k \in drop THEN <<>> ELSE <<rs[k]>>) \o WithoutFrom(rs, drop, k + 1)

\* the robots with a strictly larger priority number than robot a
StrictlyLower(a) ==
    {i \in 1 .. Len(robots) : robots[i].priority > robots[a].priority}

\* a whole pass of the running planner on the input list rs
PassOn(rs) ==
    IF planner = "solver"
    THEN SolveFrom([paths |-> <<>>, robot_paths_list |-> <<>>, returned |-> <<>>,
                    query |-> <<>>, answer |-> <<>>], rs, goals, 1)
    ELSE PlanFrom([robots |-> rs, vertex_table |-> <<>>, edge_table |-> <<>>,
                   returned |-> <<>>, query |-> <<>>, answer |-> <<>>], 1)

\* what the pass whose outcome is out left for the robot with this id: the
\* stored path and what the search returned (nothing when it has no goal)
OutcomeIn(out, id) ==
    IF planner = "solver"
    THEN IF id \in DOMAIN out.paths
         THEN <<out.paths[id], out.returned[id]>>
         ELSE <<>>
    ELSE <<(CHOOSE r \in Range(out.robots) : r.id = id).path, out.returned[id]>>

\* C3: the result (path or failure) a planning pass gives a robot is the
\* same whether or not robots with a strictly larger priority number are in
\* the input: the finished pass gave every robot what a pass without any
\* set of such robots gives it.
C3_PriorityRespected ==
    PassDone =>
        \A a \in 1 .. Len(robots) :
            \A drop \in SUBSET StrictlyLower(a) :
                OutcomeIn(PassOn(WithoutFrom(robots, drop, 1)), robots[a].id)
                    = OutcomeIn([paths |-> paths, returned |-> returned,
                                 robots |-> robots], robots[a].id)

\* a finished pass in which a robot of strictly lower priority stands
\* earlier in the input list than robot a and had to leave the path it
\* would take alone
C3_Witness ==
    /\ PassDone
    /\ \E a, l \in Planned :
        /\ l \in StrictlyLower(a) /\ l < a
        /\ Found(a) /\ Found(l)
        /\ TimedPath(l) # AlonePath(StartOf(l), GoalOf(l))

----------------------------------------------------------------------------
\* C4: a path in the list of other robots' paths counts as holding its last
\* position at every time index at or beyond its end, so no path planned
\* against it enters that position at any such time.
\* (solve_multi_robot_path plans robot_paths_list[k2] against every
\* robot_paths_list[k1] with k1 < k2.)
C4_FinalCellHeld ==
    planner = "solver" =>
        \A k1, k2 \in DOMAIN robot_paths_list :
            k1 < k2 =>
                \A t \in Len(robot_paths_list[k1]) + 1 .. Len(robot_paths_list[k2]) :
                    robot_paths_list[k2][t] # Last(robot_paths_list[k1])

----------------------------------------------------------------------------
\* the pairs <<position, total cost>> one move of get_valid_moves after the
\* pairs in now
CostStepFrom(now) ==
    UNION {{<<get_valid_moves(pc[1])[k][1], pc[2] + get_valid_moves(pc[1])[k][2]>> :
                k \in DOMAIN get_valid_moves(pc[1])} : pc \in now}

\* the pairs <<position, total cost>> of the sequences of at most n moves
\* that start from the pairs in now
RECURSIVE CostsWithin(_, _)
CostsWithin(now, n) ==
    IF n = 0 THEN now ELSE now \cup CostsWithin(CostStepFrom(now), n - 1)

\* the true minimum total move cost from start to goal (a cheapest sequence
\* of moves visits no position twice, so it has fewer moves than there are
\* positions)
TrueCost(start, goal) ==
    LET costs == {pc[2] : pc \in {qc \in CostsWithin({<<start, 0>>},
                                                     Cardinality(Positions) - 1) :
                                      qc[1] = goal}}
    IN  CHOOSE c \in costs : \A d \in costs : c <= d

\* C5: for a single robot with no other paths in the Environment, for every
\* pair of valid start and goal positions, find_path returns a path whose
\* number of moves (its length minus one) is the cheapest cost from start
\* to goal in the graph of get_valid_moves.
C5_SingleRobotOptimal ==
    (planner = "single" /\ idx = 2) =>
        /\ answer # <<>>
        /\ Len(answer) - 1 = TrueCost(query.start, query.goal)

\* find_path has answered for a start in the corridor and a goal in a room
\* three or more moves away, a pair on which the heuristic is above the
\* true cost
C5_Witness ==
    /\ planner = "single" /\ idx = 2
    /\ query.start[1] = 1 /\ query.goal[1] = 0
    /\ Len(answer) >= 4
    /\ h_cost > TrueCost(query.start, query.goal)

----------------------------------------------------------------------------
\* C6: Environment.heuristic is non-negative and admissible: on every pair
\* of valid positions it is at most the true minimum total move cost from
\* the first to the second.
C6_HeuristicAdmissible ==
    (planner = "single" /\ idx >= 1) =>
        /\ h_cost >= 0
        /\ h_cost <= TrueCost(query.start, query.goal)

----------------------------------------------------------------------------
\* C7: the check against the list of paths and the check against the table
\* agree on every move: for obstacle paths that start at time 0 and are
\* reserved at start_time 0 under ids other than the asking agent's,
\* _has_collision(from, to, t, paths) with t >= 1 is true exactly when
\* is_vertex_free(to, t, agent) is false or is_edge_free(from, to, t, agent)
\* is false.
C7_ChecksAgree ==
    (planner = "table" /\ idx = 1) =>
        (answer.list <=> (~answer.vertex_free \/ ~answer.edge_free))

\* a move that swaps cells with an obstacle was checked: the cell moved
\* into is free at that time and the list check reports a collision
C7_Witness ==
    /\ planner = "table" /\ idx = 1
    /\ answer.list
    /\ answer.vertex_free
    /\ query.from_pos # query.to_pos
    /\ Len(robot_paths_list) = Cardinality(ObstacleIds)

----------------------------------------------------------------------------
\* C8: during a planning pass of demo.py, reserve_path never writes a
\* (time, position) key or a (time, directed edge) key that a different
\* agent id owns: an entry, once written, keeps its owner for the rest of
\* the pass.
C8_OwnerNeverChanges ==
    [][/\ \A k \in DOMAIN vertex_table :
            k \in DOMAIN vertex_table' /\ vertex_table'[k] = vertex_table[k]
       /\ \A k \in DOMAIN edge_table :
            k \in DOMAIN edge_table' /\ edge_table'[k] = edge_table[k]]_vars

\* a finished pass in which three robots converge: the paths that two of
\* them would take alone hold, at one time index, the cell that the path of
\* the robot planned first holds then and that this robot owns in the table
C8_Witness ==
    /\ planner = "demo"
    /\ PassDone
    /\ \E i, j, k \in Planned :
        /\ i # j /\ i # k /\ j # k
        /\ \E t \in 2 .. Len(TimedPath(i)) :
            /\ <<t - 1, TimedPath(i)[t]>> \in DOMAIN vertex_table
            /\ vertex_table[<<t - 1, TimedPath(i)[t]>>] = robots[i].id
            /\ \A o \in {j, k} :
                /\ t <= Len(AlonePath(StartOf(o), GoalOf(o)))
                /\ AlonePath(StartOf(o), GoalOf(o))[t] = TimedPath(i)[t]
                /\ StartOf(o) # TimedPath(i)[t]

----------------------------------------------------------------------------
\* the moves a pass left for robot i to make from its start cell
MovesOf(i) == Tail(TimedPath(i))

\* C9: a robot whose search found no path ends the pass without a path, and
\* what the pass leaves for it differs from what the pass leaves for every
\* robot whose search succeeded, a robot whose start is its goal included.
C9_FailureTellsApart ==
    \A i \in Planned :
        ~Found(i) =>
            /\ MovesOf(i) = <<>>
            /\ \A j \in Planned : Found(j) => MovesOf(j) # MovesOf(i)

----------------------------------------------------------------------------
\* the cells a robot can hold one step after time t when it holds one of
\* the cells in now at time t and makes only moves the collision check lets
\* through (solver.py)
SolverStepFrom(now, t, other_robot_paths) ==
    UNION {{get_valid_moves(p)[k][1] : k \in
                {m \in DOMAIN get_valid_moves(p) :
                    ~has_collision(p, get_valid_moves(p)[m][1], t + 1,
                                   other_robot_paths)}} : p \in now}

\* whether goal is among the cells held at some time from t to horizon
RECURSIVE SolverReachable(_, _, _, _, _)
SolverReachable(now, t, goal, other_robot_paths, horizon) ==
    \/ goal \in now
    \/ /\ t < horizon
       /\ now # {}
       /\ SolverReachable(SolverStepFrom(now, t, other_robot_paths), t + 1, goal,
                          other_robot_paths, horizon)

\* the same for demo.py, against a reservation table
DemoStepFrom(now, t, agent_id, vt, et) ==
    UNION {{n \in Range(get_neighbors(p)) :
                /\ is_vertex_free(vt, n, t + 1, agent_id)
                /\ is_edge_free(et, p, n, t + 1, agent_id)} : p \in now}

RECURSIVE DemoReachable(_, _, _, _, _, _, _)
DemoReachable(now, t, goal, agent_id, vt, et, horizon) ==
    \/ goal \in now
    \/ /\ t < horizon
       /\ now # {}
       /\ DemoReachable(DemoStepFrom(now, t, agent_id, vt, et), t + 1, goal,
                        agent_id, vt, et, horizon)

\* whether the most recent call's goal can be reached within its horizon:
\* at a time up to max_time (solver.py), at a time below MAX_TIME (demo.py)
GoalReachable ==
    IF planner = "solver"
    THEN SolverReachable({query.start}, 0, query.goal, query.other_robot_paths,
                         MaxTime)
    ELSE DemoReachable({query.start}, 0, query.goal, query.agent,
                       query.vertex_table, query.edge_table, MAX_TIME - 1)

CallMade == DOMAIN returned # {}

\* the path the most recent call returned, <<>> for [] and for None
AnswerPath == IF planner = "solver" THEN answer ELSE answer.path

AnswerFound == IF planner = "solver" THEN answer # <<>> ELSE answer.found

\* C10: when no conflict-free path reaches the goal within the horizon the
\* search returns its no-path value ([] in solver.py, None in demo.py), and
\* it never returns a partial path: every path it returns runs from the
\* start to the goal.
C10_NoPathOrWholePath ==
    CallMade =>
        /\ ~GoalReachable => ~AnswerFound /\ AnswerPath = <<>>
        /\ AnswerFound =>
            /\ AnswerPath # <<>>
            /\ AnswerPath[1] = query.start
            /\ Last(AnswerPath) = query.goal

\* a call that returned the no-path value, on a goal that is a valid cell
\* other than the start
C10_Witness ==
    /\ CallMade
    /\ ~AnswerFound
    /\ query.goal # query.start

----------------------------------------------------------------------------
\* whether a position passes the validity test of the probed topology
ProbeValid(pos) ==
    IF planner = "find_path" THEN is_valid_position(pos) ELSE in_grid(pos)

\* C11: a search whose start or goal fails the topology's validity test
\* returns its no-path value: it never returns a path.
C11_InvalidEndsRejected ==
    (/\ planner \in {"find_path", "plan"} /\ idx = 2
     /\ ~ProbeValid(query.start) \/ ~ProbeValid(query.goal))
        => (~answer.found /\ answer.path = <<>>)

\* the positions and the costs the neighbour function returned for the start
ReturnedMoves ==
    IF planner = "find_path"
    THEN {<<returned[k][1], returned[k][2]>> : k \in DOMAIN returned}
    ELSE {<<returned[k], 1>> : k \in DOMAIN returned}

\* C20: for every valid position the neighbour function (get_valid_moves,
\* and get_neighbors whose every transition plan charges 1) returns the
\* wait in place with a cost of at least 1, and returns valid positions
\* only.
C20_WaitAndValidNeighbours ==
    (planner \in {"find_path", "plan"} /\ idx >= 1 /\ ProbeValid(query.start)) =>
        /\ \E m \in ReturnedMoves : m[1] = query.start /\ m[2] >= 1
        /\ \A m \in ReturnedMoves : ProbeValid(m[1])

\* the neighbour function has answered for a valid start in each topology:
\* here in the demo grid, for a cell on the border
C20_Witness ==
    /\ planner = "plan" /\ idx >= 1
    /\ ProbeValid(query.start)
    /\ Len(returned) < 5

----------------------------------------------------------------------------
\* the robot the next iteration of the pass handles
Upcoming == SortedIdx(robots)[idx + 1]

\* whether robot i is given a search at all: the solver skips a robot
\* without a goal, the demo plans every robot
HasGoal(i) == planner = "demo" \/ robots[i].id \in DOMAIN goals

\* what the pass has committed for the processed robot i: the stored path,
\* and for the demo the table keys the robot owns
Committed(i) ==
    IF planner = "solver"
    THEN <<IF robots[i].id \in DOMAIN paths THEN <<paths[robots[i].id]>> ELSE <<>>,
           IF robots[i].id \in DOMAIN returned THEN <<returned[robots[i].id]>> ELSE <<>>>>
    ELSE <<robots[i].path, returned[robots[i].id],
           {k \in DOMAIN vertex_table : vertex_table[k] = robots[i].id},
           {k \in DOMAIN edge_table : edge_table[k] = robots[i].id}>>

\* an iteration of the pass whose search fails
FailingStep ==
    /\ idx < Len(robots) /\ idx' = idx + 1
    /\ HasGoal(Upcoming)
    /\ \E u \in {Upcoming} : ~Found(u)'

\* C12: a search failure for one robot neither stops the pass nor changes
\* earlier results: the iteration in which a search fails leaves every
\* robot processed before it with exactly what was committed for it (and
\* the list of obstacle paths as it was) and counts the failing robot as
\* processed, so that the loop goes on to the next one; and whenever an
\* iteration ends the pass, every robot that has a goal has a result.
C12_FailureKeepsPass ==
    [][/\ FailingStep =>
            /\ \A i \in Processed : Committed(i)' = Committed(i)
            /\ robot_paths_list' = robot_paths_list
            /\ \E u \in {Upcoming} : u \in Processed'
       /\ PassDone' =>
            \A i \in 1 .. Len(robots) :
                HasGoal(i) =>
                    /\ robots[i].id \in DOMAIN returned'
                    /\ planner = "solver" => robots[i].id \in DOMAIN paths']_vars

\* a finished solver pass in which the robot planned second failed, the
\* one before it and the one after it found their paths
C12_Witness ==
    /\ planner = "solver" /\ PassDone
    /\ \A i \in 1 .. Len(robots) : HasGoal(i)
    /\ Found(SortedIdx(robots)[1])
    /\ ~Found(SortedIdx(robots)[2])
    /\ Found(SortedIdx(robots)[3])
    /\ Len(paths[robots[SortedIdx(robots)[1]].id]) > 1

----------------------------------------------------------------------------
\* C13: a search that gives up because the ceiling on its open set was hit
\* returns a result that differs from NoPath, the result of a search whose
\* open set emptied because the goal cannot be reached within the horizon.
C13_CapExitTellsApart ==
    (planner = "capped" /\ idx = 1 /\ returned = <<"cap">>) => answer # NoPath

----------------------------------------------------------------------------
\* the inputs of a pass, without what an earlier pass left on the robots:
\* the demo's robots carry a path and a position from before, which
\* plan_all_paths overwrites
Inputs(rs) ==
    IF planner = "solver" THEN rs
    ELSE [i \in DOMAIN rs |-> [rs[i] EXCEPT !.path = <<>>, !.pos = rs[i].start]]

\* several moves of robot i's search start paths of the same cost: start
\* and goal differ in both coordinates
TiedChoice(i) ==
    /\ StartOf(i)[1] # GoalOf(i)[1]
    /\ StartOf(i)[2] # GoalOf(i)[2]

----------------------------------------------------------------------------
\* the agents that own the key in the table: none or one
OwnersOf(table, key) == IF key \in DOMAIN table THEN {table[key]} ELSE {}

\* the table has just been asked about a move
Asked == planner = "reservations" /\ returned = <<"is_free">>

\* C15: in every reachable table state is_vertex_free(x, y, t, a) is false
\* exactly when the key (t, (x, y)) is owned by an agent other than a: it is
\* true when the key is unowned and when a owns it.
C15_VertexFreeIffNoOtherOwner ==
    Asked =>
        (answer.vertex_free
            <=> OwnersOf(vertex_table, <<query.time, query.to_pos>>) \ {query.agent} = {})

\* the asking agent owns the cell it asks about while another agent owns
\* other keys, and the cell is reported free
C15_Witness ==
    /\ Asked
    /\ OwnersOf(vertex_table, <<query.time, query.to_pos>>) = {query.agent}
    /\ \E k \in DOMAIN vertex_table : vertex_table[k] # query.agent
    /\ answer.vertex_free

\* C16: in every reachable table state is_edge_free(from, to, t, a) is
\* false exactly when the reverse edge (to, from) at time t is owned by an
\* agent other than a; neither an owner of the forward edge (from, to) nor
\* a's own reservation of the reverse edge makes it false.
C16_EdgeFreeIffReverseNotOthers ==
    Asked =>
        (answer.edge_free
            <=> OwnersOf(edge_table, <<query.time, <<query.to_pos, query.from_pos>>>>)
                    \ {query.agent} = {})

\* another agent owns the forward edge of the move asked about, the reverse
\* edge is not owned by another agent, and the move is reported free
C16_Witness ==
    /\ Asked
    /\ query.from_pos # query.to_pos
    /\ \E other \in ReserveIds \ {query.agent} :
          OwnersOf(edge_table, <<query.time, <<query.from_pos, query.to_pos>>>>) = {other}
    /\ answer.edge_free

\* reserve_path has just been called a second time with the same arguments
ReservedAgain == planner = "reservations" /\ returned = <<"reserve_path", "reserve_path">>

\* C17: a second reserve_path(path, start_time, a) with the same arguments
\* leaves the vertex table and the edge table as they were after the first
\* call, and with them every is_vertex_free / is_edge_free answer.
C17_ReserveIdempotent ==
    ReservedAgain =>
        /\ vertex_table = query.vertex_table
        /\ edge_table = query.edge_table
        /\ \A agent \in ReserveIds \cup QueryAgents : \A time \in AskTimes :
           \A from_pos \in TableCells : \A to_pos \in TableCells :
              /\ is_vertex_free(vertex_table, to_pos, time, agent)
                    = is_vertex_free(query.vertex_table, to_pos, time, agent)
              /\ is_edge_free(edge_table, from_pos, to_pos, time, agent)
                    = is_edge_free(query.edge_table, from_pos, to_pos, time, agent)

\* the second agent's path of two cells, reserved twice, holds a key that
\* the first agent had reserved before
C17_Witness ==
    /\ ReservedAgain
    /\ query.agent = 2 /\ Len(query.path) >= 2
    /\ query.path[1] # query.path[2]
    /\ \E k \in DOMAIN vertex_table : vertex_table[k] = 1
    /\ Cardinality({k \in DOMAIN vertex_table : vertex_table[k] = 2}) = Len(query.path)

\* clear_agent_reservations has just been called
Cleared == planner = "reservations" /\ returned = <<"clear_agent_reservations">>

\* C18: after clear_agent_reservations(a) neither table holds an entry
\* owned by a, and every entry owned by another agent is there unchanged.
C18_ClearRemovesOnlyOwn ==
    Cleared =>
        /\ \A k \in DOMAIN vertex_table : vertex_table[k] # query.agent
        /\ \A k \in DOMAIN edge_table : edge_table[k] # query.agent
        /\ \A k \in DOMAIN query.vertex_table :
              query.vertex_table[k] # query.agent =>
                  k \in DOMAIN vertex_table /\ vertex_table[k] = query.vertex_table[k]
        /\ \A k \in DOMAIN query.edge_table :
              query.edge_table[k] # query.agent =>
                  k \in DOMAIN edge_table /\ edge_table[k] = query.edge_table[k]
        /\ DOMAIN vertex_table \subseteq DOMAIN query.vertex_table
        /\ DOMAIN edge_table \subseteq DOMAIN query.edge_table

\* the cleared agent had vertex and edge entries, at two different times,
\* and the other agent's vertex and edge entries are still there
C18_Witness ==
    /\ Cleared
    /\ \E k \in DOMAIN query.edge_table : query.edge_table[k] = query.agent
    /\ \E k1, k2 \in DOMAIN query.vertex_table :
          /\ k1[1] # k2[1]
          /\ query.vertex_table[k1] = query.agent
          /\ query.vertex_table[k2] = query.agent
    /\ vertex_table # <<>>
    /\ edge_table # <<>>

----------------------------------------------------------------------------
\* a tick of the simulator has been executed
TickDone == planner = "simulator" /\ time_elapsed > 0

\* the robots that intended to move to pos when _move_robots began
Contested(pos) ==
    {k \in DOMAIN query.robots :
        intends(query.robots[k]) /\ next_pos(query.robots[k]) = pos}

\* the positions two or more robots intended to move to
ContestedPositions ==
    {pos \in {next_pos(query.robots[k]) :
                k \in {j \in DOMAIN query.robots : intends(query.robots[j])}} :
        Cardinality(Contested(pos)) >= 2}

\* robot k made its move to pos in the tick
MovedTo(k, pos) ==
    /\ robots[k].position = pos
    /\ ~robots[k].is_waiting
    /\ \/ robots[k].path_index = query.robots[k].path_index + 1
       \/ /\ query.robots[k].path_index + 1 = Len(query.robots[k].path)
          /\ robots[k].status = "idle"

\* robot k was held back in the tick
HeldBack(k) ==
    /\ robots[k].position = query.robots[k].position
    /\ robots[k].path_index = query.robots[k].path_index
    /\ robots[k].path = query.robots[k].path
    /\ robots[k].is_waiting

\* the robots held back in the tick from a position they contested
Losers(pos) == {k \in Contested(pos) : HeldBack(k)}

\* C19: in one tick of _move_robots, of two or more moving robots with the
\* same next intended position exactly one, the one with the lowest
\* priority number, moves there; each of the others keeps its position and
\* its path_index, is marked waiting, and intends the same position when
\* _move_robots begins in the next tick.
C19_ConflictLowestNumberMoves ==
    [][/\ TickDone' =>
            \A pos \in ContestedPositions' :
                \E w \in Contested(pos)' :
                    /\ \A k \in Contested(pos)' :
                          query'.robots[w].priority <= query'.robots[k].priority
                    /\ MovedTo(w, pos)'
                    /\ \A k \in Contested(pos)' \ {w} : HeldBack(k)'
       /\ TickDone =>
            \A pos \in ContestedPositions : \A k \in Losers(pos) :
                /\ intends(query'.robots[k])
                /\ next_pos(query'.robots[k]) = pos]_vars

\* a tick in which both robots intended to move to the same cell, the one
\* held back stood on another cell and had been held back the tick before
C19_Witness ==
    /\ TickDone
    /\ \E pos \in ContestedPositions : \E k \in Losers(pos) :
          /\ robots[k].position # pos
          /\ query.robots[k].is_waiting

----------------------------------------------------------------------------
\* the positions the topology of the planner offers from pos: the positions
\* of get_valid_moves in solver.py, get_neighbors in demo.py
OfferedMoves(pos) ==
    IF planner = "solver"
    THEN {get_valid_moves(pos)[k][1] : k \in DOMAIN get_valid_moves(pos)}
    ELSE Range(get_neighbors(pos))

\* C21: every non-empty path the search returns has the start at index 0
\* and the goal at its last index, and each consecutive pair of entries is
\* one move the topology offers for the earlier entry, the wait in place
\* included: entry i is the position occupied i steps after the start.
C21_PathIsMoveSequence ==
    (CallMade /\ AnswerPath # <<>>) =>
        /\ AnswerPath[1] = query.start
        /\ AnswerPath[Len(AnswerPath)] = query.goal
        /\ \A i \in 1..(Len(AnswerPath) - 1) :
               AnswerPath[i + 1] \in OfferedMoves(AnswerPath[i])

\* a returned path of at least four entries in which the robot waits once
\* and moves to another cell at least twice
C21_Witness ==
    /\ CallMade
    /\ Len(AnswerPath) >= 4
    /\ \E i \in 1..(Len(AnswerPath) - 1) : AnswerPath[i + 1] = AnswerPath[i]
    /\ Cardinality(Range(AnswerPath)) >= 3

----------------------------------------------------------------------------
\* C22: a planning pass plans the robots in ascending priority number, and
\* robots of equal priority in ascending id, whatever their order in the
\* input list: every robot the loop has processed comes before every robot
\* it has not processed yet, by priority and then by id.
C22_PlannedByPriorityThenId ==
    \A i \in Processed : \A j \in (DOMAIN robots) \ Processed :
        \/ robots[i].priority < robots[j].priority
        \/ /\ robots[i].priority = robots[j].priority
           /\ robots[i].id < robots[j].id

----------------------------------------------------------------------------
\* the earliest time from t to horizon at which goal is among the cells a
\* robot can hold when it makes only moves _has_collision lets through,
\* -1 when there is no such time
RECURSIVE EarliestArrival(_, _, _, _, _)
EarliestArrival(now, t, goal, other_robot_paths, horizon) ==
    IF goal \in now THEN t
    ELSE IF t >= horizon \/ now = {} THEN -1
    ELSE EarliestArrival(SolverStepFrom(now, t, other_robot_paths), t + 1, goal,
                         other_robot_paths, horizon)

\* the earliest arrival time of the most recent find_path call
BestArrival ==
    EarliestArrival({query.start}, 0, query.goal, query.other_robot_paths, MaxTime)

\* C23: with other robots' paths as obstacles find_path returns a path with
\* the fewest moves among the conflict-free paths within the horizon: no
\* sequence of moves that passes the same vertex and swap tests reaches the
\* goal at an earlier time, and find_path returns [] only when no such
\* sequence reaches the goal within max_time.
C23_FewestMovesAmongObstacles ==
    (planner = "solver" /\ CallMade) =>
        IF BestArrival = -1 THEN answer = <<>>
        ELSE Len(answer) = BestArrival + 1

\* a call with obstacles that returned a path longer than the path of a lone
\* robot: the obstacles forced a wait or a detour
C23_Witness ==
    /\ planner = "solver" /\ CallMade
    /\ query.other_robot_paths # <<>>
    /\ answer # <<>>
    /\ Len(answer) > Len(AlonePath(query.start, query.goal))

----------------------------------------------------------------------------
\* two robots have exchanged their positions in the tick that has just run
SwappedInTick ==
    \E i \in DOMAIN robots : \E j \in DOMAIN robots :
        /\ i # j
        /\ robots[i].position # robots[j].position
        /\ robots[i].position = query.robots[j].position
        /\ robots[j].position = query.robots[i].position

\* C24: in the simulator, after any sequence of simulation steps from the
\* initial state, no two robots occupy the same position and no two robots
\* have exchanged their positions within one tick.
C24_SimulatorCollisionFree ==
    planner = "simulator" =>
        /\ \A i \in DOMAIN robots : \A j \in DOMAIN robots :
               i # j => robots[i].position # robots[j].position
        /\ TickDone => ~SwappedInTick

----------------------------------------------------------------------------
\* indexes of the robots _assign_orders gave a path in the tick just run
AssignedNow ==
    {k \in DOMAIN query.robots :
        \E o \in DOMAIN orders :
            /\ orders[o].status = "assigned"
            /\ orders[o].start_time = time_elapsed
            /\ orders[o].assigned_robot = query.robots[k].id}

\* two paths read from time index 0 hold the same cell at an index inside
\* both, or exchange two cells between two consecutive such indexes
PathsConflict(p, q) ==
    \/ \E t \in 1 .. Min2(Len(p), Len(q)) : p[t] = q[t]
    \/ \E t \in 1 .. (Min2(Len(p), Len(q)) - 1) :
           /\ p[t] # p[t + 1]
           /\ p[t] = q[t + 1]
           /\ p[t + 1] = q[t]

\* C25: the full path _assign_orders stores on a robot, the pickup leg
\* joined to the delivery leg, read as positions at consecutive time
\* indexes from 0, has no vertex conflict and no swap conflict with any of
\* the other robots' paths it was planned against, at any time index inside
\* those paths.
C25_FullPathConflictFree ==
    TickDone =>
        \A k \in AssignedNow :
            \A other \in Range(get_other_robot_paths(query.robots,
                                                     query.robots[k].id)) :
                ~PathsConflict(query.robots[k].path, other)

----------------------------------------------------------------------------
(***************************************************************************)
(* The two searches turn by turn.  One step is one turn of the while loop  *)
(* of find_path (planner "find_loop") or of plan (planner "plan_loop");    *)
(* query holds the arguments of the call and answer the search state: the  *)
(* open set, the closed set, whether the function has returned and what    *)
(* it returned, and idx the parity of the number of turns taken.  The goal *)
(* is a cell, or a position no move leads to, and the obstacles are none,  *)
(* another robot that stays on the goal up to the horizon, or a robot that *)
(* comes along the corridor or the first row.                              *)
(***************************************************************************)
\* the max_time arguments of find_path
Horizons == {0, 2, MaxTime}

InitSearch ==
    /\ planner \in {"find_loop", "plan_loop"}
    /\ \/ /\ planner = "find_loop"
          /\ \E start \in {<<1, 0>>, <<0, 2>>} :
             \E goal \in {<<1, 4>>, <<0, 0>>, <<0, 2>>, <<GRID_HEIGHT, 0>>} :
             \E max_time \in Horizons :
             \E others \in {<<>>, <<[t \in 1 .. MaxTime + 1 |-> goal]>>,
                            << <<<<1, 3>>, <<1, 2>>, <<1, 1>>, <<1, 0>>>> >>} :
                /\ query = [start |-> start, goal |-> goal,
                            other_robot_paths |-> others, max_time |-> max_time]
                /\ answer = [open_set |-> heappush(<<>>,
                                            AStarNode(start, 0, 0,
                                                      heuristic(start, goal), <<>>)),
                             closed_set |-> {}, done |-> FALSE, result |-> <<>>]
          /\ vertex_table = <<>>
          /\ edge_table = <<>>
       \/ /\ planner = "plan_loop"
          /\ \E start \in {<<0, 0>>, <<1, 1>>} :
             \E goal \in {<<GRID_SIZE - 1, GRID_SIZE - 1>>, <<0, 1>>, <<1, 1>>,
                          OutsideGoal} :
             \E start_time \in StartTimes : \E cap \in {NodeCap, OPEN_SET_CAP} :
                /\ query = [start |-> start, goal |-> goal,
                            start_time |-> start_time, agent |-> 0, cap |-> cap]
                /\ answer = [open_set |-> <<OpenEntry(0, 0, start, start_time,
                                                      [cells |-> <<>>,
                                                       flat |-> <<>>])>>,
                             closed_set |-> {}, done |-> FALSE, result |-> NoPath]
          /\ \E held \in {<<>>, [t \in 1 .. MAX_TIME |-> query.goal],
                          <<<<0, 2>>, <<0, 1>>, <<0, 0>>>>} :
                /\ vertex_table = reserve_vertices(<<>>, held, 0, 1)
                /\ edge_table = reserve_edges(<<>>, held, 0, 1)
    /\ robots = <<>>
    /\ goals = <<>>
    /\ idx = 0
    /\ paths = <<>>
    /\ robot_paths_list = <<>>
    /\ returned = <<>>
    /\ h_cost = 0
    /\ NoSimulator

\* solver.py, find_path: one turn of the while loop
FindTurnStep ==
    /\ planner = "find_loop"
    /\ ~answer.done
    /\ answer' = FindTurn(answer, query.goal, query.other_robot_paths,
                          query.max_time)
    /\ idx' = 1 - idx
    /\ UNCHANGED <<planner, robots, goals, paths, robot_paths_list,
                   vertex_table, edge_table, returned, query, h_cost>>
    /\ UNCHANGED sim_vars

\* demo.py, plan: one turn of the while loop
PlanTurnStep ==
    /\ planner = "plan_loop"
    /\ ~answer.done
    /\ answer' = PlanTurn(answer, query.goal, query.agent, vertex_table,
                          edge_table, query.cap)
    /\ idx' = 1 - idx
    /\ UNCHANGED <<planner, robots, goals, paths, robot_paths_list,
                   vertex_table, edge_table, returned, query, h_cost>>
    /\ UNCHANGED sim_vars

NextSearch == FindTurnStep \/ PlanTurnStep

SpecSearch == InitSearch /\ [][NextSearch]_vars

\* the loop takes a turn: what FindTurnStep and PlanTurnStep have in common
TurnTaken ==
    /\ planner \in {"find_loop", "plan_loop"}
    /\ ~answer.done
    /\ idx' = 1 - idx

\* a turn of the loop is straight-line code that nothing can hold up: a
\* search that has not returned takes its next turn
SpecSearchFair == SpecSearch /\ WF_idx(TurnTaken)

----------------------------------------------------------------------------
\* the search has returned
SearchDone == planner \in {"find_loop", "plan_loop"} /\ answer.done

\* the search has returned its no-path value
SearchFailed ==
    /\ SearchDone
    /\ IF planner = "find_loop" THEN answer.result = <<>>
       ELSE ~answer.result.found

\* C26: every call of the search terminates, with a path or with failure,
\* for every start, goal, obstacle set and finite horizon, also when the
\* goal is blocked throughout or cannot be reached.
C26_SearchTerminates == <>SearchDone

\* the search has returned failure on a goal another robot stays on up to
\* the horizon, after the start node and further nodes were expanded
C26_Witness ==
    /\ SearchFailed
    /\ planner = "find_loop"
    /\ query.max_time = MaxTime
    /\ query.other_robot_paths = <<[t \in 1 .. MaxTime + 1 |-> query.goal]>>
    /\ Cardinality(answer.closed_set) > MaxTime

----------------------------------------------------------------------------
\* C27: the search never considers a timestep beyond the horizon.  In
\* find_path no node with a time above max_time is on the open set or in
\* the closed set, and a returned path has at most max_time moves; in plan
\* no pushed node (g_cost above 0) has a time of MAX_TIME or more.
C27_WithinHorizon ==
    /\ planner = "find_loop" =>
          /\ \A k \in DOMAIN answer.open_set :
                 answer.open_set[k].time <= query.max_time
          /\ \A state \in answer.closed_set : state[2] <= query.max_time
          /\ Len(answer.result) <= query.max_time + 1
    /\ planner = "plan_loop" =>
          \A k \in DOMAIN answer.open_set :
              answer.open_set[k].g_cost > 0 => answer.open_set[k].time < MAX_TIME

\* a search with horizon 2 popped a node at time 2, closed it without
\* expanding it, and went on
C27_Witness ==
    /\ planner = "find_loop"
    /\ query.max_time = 2
    /\ \E state \in answer.closed_set : state[2] = 2
    /\ ~answer.done
    /\ answer.open_set # <<>>

----------------------------------------------------------------------------
\* the nodes plan has expanded: popped and added to the closed set
Expanded == Cardinality(answer.closed_set)

\* plan has left its loop by the ceiling in the loop condition
StoppedByCap == SearchDone /\ planner = "plan_loop" /\ ExitOf(answer) = "cap"

\* C28: the search returns failure once the number of expanded nodes
\* exceeds its safety cap: the cap counts expanded nodes, a search that has
\* expanded fewer nodes than the cap is never stopped by it, and a search
\* whose count has passed the cap does not take another turn.
C28_CapCountsExpanded ==
    planner = "plan_loop" =>
        /\ StoppedByCap => Expanded >= query.cap
        /\ Expanded > query.cap => SearchFailed

----------------------------------------------------------------------------
(***************************************************************************)
(* demo.py: MAPFSimulator planning again.  The constructor runs the first  *)
(* pass; afterwards the key R runs plan_all_paths on the robots as they    *)
(* are, and generate_new_goals, called when every robot has arrived, makes *)
(* each robot's position its start, draws a free cell as its goal and runs *)
(* plan_all_paths.  idx counts the passes, query keeps the reservation     *)
(* table as the latest pass found it.                                      *)
(***************************************************************************)
\* the passes a run is followed for
MaxPasses == 3

\* the cells starts and goals are drawn from
ReplanCells == {<<0, 0>>, <<1, 1>>, <<2, 1>>, <<2, 2>>}

\* (mutant) the pass goes on with the table it finds
PassFrom_KeepsTable(rs, vt, et) ==
    PlanFrom([robots |-> rs, vertex_table |-> vt, edge_table |-> et,
              returned |-> <<>>, query |-> <<>>, answer |-> <<>>], 1)

\* plan_all_paths on the robots rs, called when the reservation table holds
\* vt and et: the pass sets up a new ReservationTable and plans the robots
PassFrom(rs, vt, et) ==
    PlanFrom([robots |-> rs, vertex_table |-> <<>>, edge_table |-> <<>>,
              returned |-> <<>>, query |-> <<>>, answer |-> <<>>], 1)

InitReplan ==
    /\ planner = "replan"
    /\ \E st \in {f \in [1 .. 2 -> ReplanCells] : Injective(f)} :
       \E gl \in {f \in [1 .. 2 -> ReplanCells] : Injective(f)} :
       \E first \in {PassFrom([i \in 1 .. 2 |->
                                  [id |-> i - 1, start |-> st[i], goal |-> gl[i],
                                   pos |-> st[i], path |-> <<>>,
                                   priority |-> i - 1]], <<>>, <<>>)} :
          /\ robots = first.robots
          /\ vertex_table = first.vertex_table
          /\ edge_table = first.edge_table
          /\ returned = first.returned
    /\ query = [vertex_table |-> <<>>, edge_table |-> <<>>]
    /\ idx = 1
    /\ goals = <<>>
    /\ paths = <<>>
    /\ robot_paths_list = <<>>
    /\ answer = <<>>
    /\ h_cost = 0
    /\ NoSimulator

\* demo.py, run: the key R calls plan_all_paths
ReplanStep ==
    /\ planner = "replan"
    /\ idx < MaxPasses
    /\ \E st \in {PassFrom(robots, vertex_table, edge_table)} :
          /\ robots' = st.robots
          /\ vertex_table' = st.vertex_table
          /\ edge_table' = st.edge_table
          /\ returned' = st.returned
    /\ query' = [vertex_table |-> vertex_table, edge_table |-> edge_table]
    /\ idx' = idx + 1
    /\ UNCHANGED <<planner, goals, paths, robot_paths_list, answer, h_cost>>
    /\ UNCHANGED sim_vars

\* demo.py, generate_new_goals when every robot stands on its goal: in list
\* order each robot starts where it stands and gets a goal that is neither
\* a robot's position nor a goal drawn before it, then the pass is run
NewGoalsStep ==
    /\ planner = "replan"
    /\ idx < MaxPasses
    /\ \E g1 \in ReplanCells \ {robots[1].goal, robots[2].goal} :
       \E g2 \in ReplanCells \ {robots[1].goal, robots[2].goal, g1} :
       \E st \in {PassFrom([robots EXCEPT
                               ![1] = [@ EXCEPT !.pos = robots[1].goal,
                                                !.start = robots[1].goal,
                                                !.goal = g1],
                               ![2] = [@ EXCEPT !.pos = robots[2].goal,
                                                !.start = robots[2].goal,
                                                !.goal = g2]],
                           vertex_table, edge_table)} :
          /\ robots' = st.robots
          /\ vertex_table' = st.vertex_table
          /\ edge_table' = st.edge_table
          /\ returned' = st.returned
    /\ query' = [vertex_table |-> vertex_table, edge_table |-> edge_table]
    /\ idx' = idx + 1
    /\ UNCHANGED <<planner, goals, paths, robot_paths_list, answer, h_cost>>
    /\ UNCHANGED sim_vars

NextReplan == ReplanStep \/ NewGoalsStep

SpecReplan == InitReplan /\ [][NextReplan]_vars

----------------------------------------------------------------------------
\* the entries of a table as (key, owner) pairs
Entries(table) == {<<k, table[k]>> : k \in DOMAIN table}

\* C29: at the end of every planning pass, a replan after an earlier pass
\* included, the reservation table holds exactly the vertex and edge
\* entries of the paths committed in that pass: no entry of an earlier pass
\* survives.
C29_TableIsThisPass ==
    planner = "replan" =>
        /\ Entries(vertex_table) =
              UNION {{<<k, robots[i].id>> : k \in PathVertexKeys(TimedPath(i), 0)} :
                        i \in {j \in DOMAIN robots : Found(j)}}
        /\ Entries(edge_table) =
              UNION {{<<k, robots[i].id>> : k \in PathEdgeKeys(TimedPath(i), 0)} :
                        i \in {j \in DOMAIN robots : Found(j)}}

\* a later pass has ended, and a vertex entry and an edge entry the table
\* held when the pass began are gone
C29_Witness ==
    /\ planner = "replan"
    /\ idx >= 2
    /\ \E k \in DOMAIN query.vertex_table : k \notin DOMAIN vertex_table
    /\ \E k \in DOMAIN query.edge_table : k \notin DOMAIN edge_table
    /\ edge_table # <<>>

----------------------------------------------------------------------------
\* C30: Environment.heuristic is consistent with the move costs: for every
\* valid position p, every move (p2, c) of get_valid_moves(p) and every
\* valid goal, heuristic(p, goal) <= c + heuristic(p2, goal).
C30_HeuristicConsistent ==
    (planner = "single" /\ idx >= 1) =>
        \A k \in DOMAIN get_valid_moves(query.start) :
            h_cost <= get_valid_moves(query.start)[k][2]
                          + heuristic(get_valid_moves(query.start)[k][1], query.goal)

\* the heuristic was evaluated on a corridor cell for a goal in a room of
\* another column, and the move up into the room above costs exactly what
\* it takes off the estimate
C30_Witness ==
    /\ planner = "single" /\ idx >= 1
    /\ query.start[1] = 1 /\ query.goal[1] = 0
    /\ query.start[2] # query.goal[2]
    /\ h_cost = 1 + heuristic(<<0, query.start[2]>>, query.goal)

----------------------------------------------------------------------------
\* the path the search has returned, <<>> while it runs and on failure
SearchPath ==
    IF planner = "find_loop" THEN answer.result ELSE answer.result.path

\* C31: the search stops the first time a node at the goal position is
\* popped.  A node at the goal is never expanded: the closed set holds none
\* in find_path, and in plan only the one the search returned on.  In every
\* returned path the goal is at the last index only, and a search whose
\* start equals its goal returns the one-element path [start].
C31_StopsAtFirstGoalPop ==
    planner \in {"find_loop", "plan_loop"} =>
        /\ \A state \in answer.closed_set :
               state[1] = query.goal =>
                   /\ planner = "plan_loop"
                   /\ SearchDone
                   /\ SearchPath # <<>>
                   /\ state[2] = query.start_time + Len(SearchPath) - 1
        /\ \A i \in DOMAIN SearchPath :
               SearchPath[i] = query.goal <=> i = Len(SearchPath)
        /\ (SearchDone /\ query.start = query.goal) => SearchPath = <<query.start>>

\* a search has returned a path of three or more entries on popping the
\* goal while other nodes were still on the open set
C31_Witness ==
    /\ SearchDone
    /\ Len(SearchPath) >= 3
    /\ answer.open_set # <<>>

----------------------------------------------------------------------------
\* The simulator left running after the last order has been drawn: ticks
\* go on while a robot is MOVING (simulator.py, update -> _simulation_step
\* once per tick while is_running).

DrainTicks == 80

Busy == \E k \in DOMAIN robots : robots[k].status = "moving"

\* _simulation_step in a tick whose random draw generates no order.
DrainStep ==
    /\ planner = "simulator"
    /\ time_elapsed >= MaxTicks
    /\ time_elapsed < DrainTicks
    /\ Busy
    /\ TickWith(<<>>)

NextSimulatorLive == SimulationStep \/ DrainStep

\* The clock of a tick: a tick is possible exactly when this is.
Tick ==
    /\ planner = "simulator"
    /\ \/ time_elapsed < MaxTicks
       \/ Busy /\ time_elapsed < DrainTicks
    /\ time_elapsed' = time_elapsed + 1

SpecSimulatorLive ==
    InitSimulator /\ [][NextSimulatorLive]_vars /\ WF_time_elapsed(Tick)

\* C32: provided simulation steps keep occurring, every MOVING robot
\* eventually becomes IDLE and every ASSIGNED order is eventually among
\* the completed orders.
C32_MovingBecomesIdle ==
    /\ \A k \in {1, 2} :
          (planner = "simulator" /\ robots[k].status = "moving")
              ~> (robots[k].status = "idle")
    /\ \A id \in 1..MaxOrders :
          (\E i \in DOMAIN orders :
               orders[i].id = id /\ orders[i].status = "assigned")
              ~> (\E i \in DOMAIN completed_orders : completed_orders[i].id = id)

\* A robot is held back by the priority guard in a tick after the last draw.
C32_HeldBack ==
    /\ planner = "simulator"
    /\ time_elapsed > MaxTicks
    /\ \E k \in DOMAIN robots : robots[k].is_waiting

\* Both robots are idle again and both orders completed after such ticks.
C32_Witness ==
    /\ planner = "simulator"
    /\ time_elapsed > MaxTicks + 1
    /\ ~Busy
    /\ Len(completed_orders) = MaxOrders

----------------------------------------------------------------------------
\* robot i stays in place in the solver's pass: it was given no goal, or
\* its search found no path
StaysInPlace(i) == ~HasGoal(i) \/ (i \in Processed /\ ~Found(i))

\* C33: when the solver's pass is over, the cell of a robot that was given
\* no goal, or for which no path was found, is entered by no other robot's
\* returned path at any time index.
C33_StationaryIsObstacle ==
    (planner = "solver" /\ PassDone) =>
        \A i \in 1 .. Len(robots) :
            StaysInPlace(i) =>
                \A j \in (1 .. Len(robots)) \ {i} :
                    (HasGoal(j) /\ Found(j)) =>
                        \A t \in DOMAIN paths[robots[j].id] :
                            paths[robots[j].id][t] # robots[i].position

\* the same for the robots whose search failed only
C33_FailedIsObstacle ==
    (planner = "solver" /\ PassDone) =>
        \A i \in 1 .. Len(robots) :
            (HasGoal(i) /\ ~Found(i)) =>
                \A j \in (1 .. Len(robots)) \ {i} :
                    (HasGoal(j) /\ Found(j)) =>
                        \A t \in DOMAIN paths[robots[j].id] :
                            paths[robots[j].id][t] # robots[i].position

----------------------------------------------------------------------------
\* The simulator with its keys: reset (key R of main.py) and manual orders.

MaxResets == 1

\* simulator.py, reset.  idx counts the resets.
ResetStep ==
    /\ planner = "simulator"
    /\ idx < MaxResets
    /\ time_elapsed' = 0
    /\ robots' = << [id |-> 1, position |-> <<1, 0>>, path |-> <<>>,
                     path_index |-> 0, priority |-> 1, status |-> "idle",
                     is_waiting |-> FALSE],
                    [id |-> 2, position |-> <<1, 4>>, path |-> <<>>,
                     path_index |-> 0, priority |-> 2, status |-> "idle",
                     is_waiting |-> FALSE] >>
    /\ orders' = <<>>
    /\ completed_orders' = <<>>
    /\ next_order_id' = 1
    /\ idx' = idx + 1
    /\ query' = <<>>
    /\ UNCHANGED <<planner, goals, paths, robot_paths_list, vertex_table,
                   edge_table, returned, answer, h_cost, time_step,
                   robots_waiting>>

\* simulator.py, add_manual_order (key O of main.py): an order between two
\* different rooms requested at the current time.  The key is followed
\* while the simulator, which starts paused, has not taken a step.
ManualOrderStep ==
    /\ planner = "simulator"
    /\ time_elapsed = 0
    /\ next_order_id <= MaxOrders
    /\ \E a \in OrderRooms, b \in OrderRooms :
          /\ a # b
          /\ orders' = Append(orders, Order(next_order_id, a, b, time_elapsed))
    /\ next_order_id' = next_order_id + 1
    /\ UNCHANGED <<planner, robots, goals, idx, paths, robot_paths_list,
                   vertex_table, edge_table, returned, query, answer, h_cost,
                   time_elapsed, completed_orders, time_step, robots_waiting>>

NextSimulatorReset == SimulationStep \/ ResetStep \/ ManualOrderStep

SpecSimulatorReset == InitSimulator /\ [][NextSimulatorReset]_vars

\* C34: after every simulation step and after reset, each robot is either
\* IDLE with an empty path and path_index 0, or MOVING with a non-empty
\* path and 0 <= path_index < len(path).
C34_StatusMatchesPath ==
    planner = "simulator" =>
        \A k \in DOMAIN robots :
            \/ /\ robots[k].status = "idle"
               /\ robots[k].path = <<>>
               /\ robots[k].path_index = 0
            \/ /\ robots[k].status = "moving"
               /\ robots[k].path # <<>>
               /\ 0 <= robots[k].path_index
               /\ robots[k].path_index < Len(robots[k].path)

\* after a reset a robot is under way again, and another has finished a path
C34_Witness ==
    /\ planner = "simulator"
    /\ idx = 1
    /\ \E k \in DOMAIN robots :
          robots[k].status = "moving" /\ robots[k].path_index >= 1
    /\ completed_orders # <<>>

\* right after a reset that found a robot MOVING and an order completed
C34_AfterReset ==
    [][(/\ planner = "simulator"
        /\ idx' = idx + 1
        /\ completed_orders # <<>>
        /\ \E k \in DOMAIN robots : robots[k].status = "moving")
       => \A k \in DOMAIN robots :
              /\ robots'[k].status = "idle"
              /\ robots'[k].path = <<>>
              /\ robots'[k].path_index = 0]_vars

----------------------------------------------------------------------------
\* the ASSIGNED orders that name robot k as assigned_robot, as indexes
AssignedTo(k) ==
    {i \in DOMAIN orders : /\ orders[i].status = "assigned"
                           /\ orders[i].assigned_robot = robots[k].id}

\* robot k is MOVING with exactly one ASSIGNED order, or IDLE with none
OneOrderIffMoving ==
    \A k \in DOMAIN robots :
        Cardinality(AssignedTo(k)) = IF robots[k].status = "moving" THEN 1 ELSE 0

\* the robots whose path ended in the step just taken: MOVING when
\* _move_robots started, IDLE after it
FinishedInStep ==
    {k \in DOMAIN robots' :
        query'.robots[k].status = "moving" /\ robots'[k].status = "idle"}

\* the orders the step just taken has added to completed_orders
CompletedInStep ==
    {completed_orders'[i] : i \in Len(completed_orders) + 1 .. Len(completed_orders')}

\* C35: after every simulation step a robot is MOVING exactly when exactly
\* one ASSIGNED order names it and an IDLE robot has none, and the orders
\* completed in the step are exactly the orders of the robots whose path
\* ended in it, one for each.
C35_OneOrderPerMovingRobot ==
    [][(planner = "simulator" /\ time_elapsed' = time_elapsed + 1) =>
          /\ OneOrderIffMoving'
          /\ {o.assigned_robot : o \in CompletedInStep}
                 = {robots[k].id : k \in FinishedInStep}
          /\ Cardinality(CompletedInStep) = Cardinality(FinishedInStep)
          /\ \A o \in CompletedInStep :
                 /\ o.status = "completed"
                 /\ \A i \in DOMAIN orders' : orders'[i].id # o.id]_vars

\* a robot has finished its path and its order is completed while the
\* other robot is MOVING with its own order
C35_Witness ==
    /\ planner = "simulator"
    /\ Len(completed_orders) = 1
    /\ \E k \in DOMAIN robots :
          /\ robots[k].status = "idle"
          /\ completed_orders[1].assigned_robot = robots[k].id
    /\ \E k \in DOMAIN robots :
          /\ robots[k].status = "moving"
          /\ Cardinality(AssignedTo(k)) = 1

----------------------------------------------------------------------------
\* the ids of the orders the step just taken has assigned
AssignedInStep ==
    {orders'[i].id : i \in {j \in DOMAIN orders' : orders'[j].status = "assigned"}}
        \ {orders[i].id : i \in {j \in DOMAIN orders : orders[j].status = "assigned"}}

\* C36: each simulation step assigns at most one order, and every order
\* still pending after the step was requested after the one assigned (it
\* comes later in the list of orders, with a larger id and a request time
\* that is not smaller); so no order is ASSIGNED while an order before it
\* in the list is pending.
C36_FirstComeFirstServed ==
    [][(planner = "simulator" /\ time_elapsed' = time_elapsed + 1) =>
          /\ Cardinality(AssignedInStep) <= 1
          /\ \A i \in DOMAIN orders' :
                 orders'[i].id \in AssignedInStep =>
                     \A j \in DOMAIN orders' :
                         orders'[j].status = "pending" =>
                             /\ j > i
                             /\ orders'[j].id > orders'[i].id
                             /\ orders'[j].request_time >= orders'[i].request_time
          /\ \A i \in DOMAIN orders', j \in DOMAIN orders' :
                 (i < j /\ orders'[j].status = "assigned") =>
                     orders'[i].status # "pending"]_vars

\* two orders were pending and both robots idle when the step began; the
\* step has assigned the first and left the second pending
C36_Witness ==
    /\ planner = "simulator"
    /\ Len(orders) = 2
    /\ orders[1].status = "assigned"
    /\ orders[2].status = "pending"
    /\ orders[2].request_time < orders[1].start_time
    /\ \E k \in DOMAIN robots : robots[k].status = "idle"

----------------------------------------------------------------------------
(***************************************************************************)
(* demo.py: MAPFSimulator running.  After the constructor's pass, run      *)
(* calls move_robots once per tick; a tick in which no robot followed its  *)
(* path ends with generate_new_goals and a new pass.  idx counts the       *)
(* passes, query keeps the robots as the tick found them.                  *)
(***************************************************************************)
\* the passes a run is followed for
MaxRuns == 2

\* the cells the constructor's starts and goals are drawn from
RunStarts == {<<0, 0>>, <<0, 1>>, <<1, 1>>}
RunGoals == {<<1, 2>>, <<0, 2>>, <<2, 2>>, <<2, 1>>}

\* dict deletion: del d[k]
Del(d, k) == [x \in DOMAIN d \ {k} |-> d[x]]

\* demo.py, move_robots: the first loop's body for the robot at index k;
\* st holds the robots, robots_waiting and any_robot_moving
FollowOne(st, k, ts) ==
    LET robot == st.robots[k]
    IN  IF robot.id \in DOMAIN st.robots_waiting
        THEN IF ts >= st.robots_waiting[robot.id]
             THEN [st EXCEPT !.robots[k].pos = robot.goal,
                             !.robots_waiting = Del(st.robots_waiting, robot.id)]
             ELSE st
        ELSE IF robot.path # <<>> /\ ts < Len(robot.path)
        THEN [st EXCEPT !.robots[k].pos = robot.path[ts + 1],
                        !.any_robot_moving = TRUE]
        ELSE [st EXCEPT !.robots[k].pos = robot.goal]

RECURSIVE FollowFrom(_, _, _)
FollowFrom(st, k, ts) ==
    IF k > Len(st.robots) THEN st
    ELSE FollowFrom(FollowOne(st, k, ts), k + 1, ts)

\* demo.py, move_robots: the adjacent cells tried by a robot that steps
\* aside, in the order of the loop over (dx, dy)
AsideCells(pos) ==
    << <<pos[1], pos[2] + 1>>, <<pos[1] + 1, pos[2]>>,
       <<pos[1], pos[2] - 1>>, <<pos[1] - 1, pos[2]>> >>

\* demo.py, move_robots: the body of the loops over blocking_robot and
\* moving_robot for the robots at indexes b and m.  Only i == 1 has an
\* effect: the moving robot's next path entry is the blocking robot's cell.
StepAside(st, b, m, ts) ==
    LET blocking_robot == st.robots[b]
        moving_robot == st.robots[m]
        current_positions == {st.robots[k].pos : k \in DOMAIN st.robots}
        free == InOrder({n \in 1 .. 4 :
                            /\ in_grid(AsideCells(blocking_robot.pos)[n])
                            /\ AsideCells(blocking_robot.pos)[n] \notin current_positions})
    IN  IF /\ ts + 1 < Len(moving_robot.path)
           /\ moving_robot.path[ts + 2] = blocking_robot.pos
           /\ free # <<>>
        THEN [st EXCEPT !.robots[b].pos = AsideCells(blocking_robot.pos)[free[1]],
                        !.robots_waiting = Put(st.robots_waiting,
                                               blocking_robot.id, ts + 2)]
        ELSE st

\* the pairs (blocking_robot, moving_robot) from index n on, in loop order
RECURSIVE AsideFrom(_, _, _, _)
AsideFrom(st, pairs, n, ts) ==
    IF n > Len(pairs) THEN st
    ELSE AsideFrom(StepAside(st, pairs[n][1], pairs[n][2], ts), pairs, n + 1, ts)

\* demo.py, move_robots up to the increment of time_step
demo_move_robots(rs, waiting, ts) ==
    LET followed == FollowFrom([robots |-> rs, robots_waiting |-> waiting,
                                any_robot_moving |-> FALSE], 1, ts)
        robots_at_goal ==
            InOrder({k \in DOMAIN rs :
                        /\ followed.robots[k].pos = followed.robots[k].goal
                        /\ followed.robots[k].id \notin DOMAIN followed.robots_waiting})
        robots_moving ==
            InOrder({k \in DOMAIN rs :
                        /\ followed.robots[k].pos # followed.robots[k].goal
                        /\ followed.robots[k].path # <<>>})
        pairs == [n \in 1 .. Len(robots_at_goal) * Len(robots_moving) |->
                     <<robots_at_goal[((n - 1) \div Len(robots_moving)) + 1],
                       robots_moving[((n - 1) % Len(robots_moving)) + 1]>>]
    IN  AsideFrom(followed, pairs, 1, ts)

\* demo.py, generate_new_goals before its pass: in list order each robot
\* starts where it stands and gets the goal gl gives it
WithNewGoals(rs, gl) ==
    [k \in DOMAIN rs |-> [rs[k] EXCEPT !.start = rs[k].pos, !.goal = gl[k]]]

InitRun ==
    /\ planner = "run"
    /\ \E st \in {f \in [1 .. 3 -> RunStarts] : Injective(f)} :
       \E gl \in {f \in [1 .. 3 -> RunGoals] : Injective(f)} :
       \E first \in {PassFrom([i \in 1 .. 3 |->
                                  [id |-> i - 1, start |-> st[i], goal |-> gl[i],
                                   pos |-> st[i], path |-> <<>>,
                                   priority |-> i - 1]], <<>>, <<>>)} :
          /\ robots = first.robots
          /\ vertex_table = first.vertex_table
          /\ edge_table = first.edge_table
          /\ returned = first.returned
    /\ query = <<>>
    /\ idx = 1
    /\ goals = <<>>
    /\ paths = <<>>
    /\ robot_paths_list = <<>>
    /\ answer = <<>>
    /\ h_cost = 0
    /\ NoSimulator

\* demo.py, move_robots: one tick; when no robot followed its path the
\* tick ends with generate_new_goals, whose goals are drawn from the cells
\* no robot stands on, and plan_all_paths
MoveStep ==
    /\ planner = "run"
    /\ \E moved \in {demo_move_robots(robots, robots_waiting, time_step)} :
          /\ robots_waiting' = moved.robots_waiting
          /\ IF moved.any_robot_moving
             THEN /\ robots' = moved.robots
                  /\ time_step' = time_step + 1
                  /\ UNCHANGED <<vertex_table, edge_table, returned, idx>>
             ELSE /\ idx < MaxRuns
                  /\ \E gl \in {f \in [1 .. 3 -> (RunStarts \cup RunGoals)
                                          \ {moved.robots[k].pos : k \in 1 .. 3}] :
                                   Injective(f)} :
                     \E st \in {PassFrom(WithNewGoals(moved.robots, gl),
                                         vertex_table, edge_table)} :
                        /\ robots' = st.robots
                        /\ vertex_table' = st.vertex_table
                        /\ edge_table' = st.edge_table
                        /\ returned' = st.returned
                  /\ time_step' = 0
                  /\ idx' = idx + 1
    /\ query' = [robots |-> robots]
    /\ UNCHANGED <<planner, goals, paths, robot_paths_list, answer, h_cost,
                   time_elapsed, orders, completed_orders, next_order_id>>

NextRun == MoveStep

SpecRun == InitRun /\ [][NextRun]_vars

\* check_collisions reports a collision: two robots on one cell
Collision ==
    \E a \in DOMAIN robots, b \in DOMAIN robots :
        a < b /\ robots[a].pos = robots[b].pos

\* every robot's search found a path in the latest pass
AllFound == \A k \in DOMAIN robots : returned[robots[k].id].found

\* C37: after any sequence of move_robots ticks following a planning pass
\* from pairwise distinct start cells, no two robots occupy the same cell.
C37_DemoCollisionFree == planner = "run" => ~Collision

\* the same for the runs in which every search found a path
C37_CollisionFreeWhenAllFound == (planner = "run" /\ AllFound) => ~Collision

\* the same while a robot that stepped aside is away from its goal
C37_CollisionFreeAside ==
    (planner = "run" /\ AllFound /\ robots_waiting # <<>>) => ~Collision

----------------------------------------------------------------------------
\* robot k's position after the tick is its position before it or a cell
\* 4-adjacent to it
StaysOrSteps(k) ==
    Abs(robots'[k].pos[1] - robots[k].pos[1])
        + Abs(robots'[k].pos[2] - robots[k].pos[2]) <= 1

\* C38: in every move_robots tick each robot's position either stays the
\* same or changes to a 4-adjacent cell, and a robot for which planning
\* found no path stays at its start cell.
C38_MovesAreSteps ==
    [][planner = "run" =>
          \A k \in DOMAIN robots :
              /\ StaysOrSteps(k)
              /\ ~returned[robots[k].id].found => robots'[k].pos = robots[k].start]_vars

\* the first part in the ticks after a pass in which every search found a
\* path
C38_StepsWhenAllFound ==
    [][(planner = "run" /\ AllFound) =>
          \A k \in DOMAIN robots : StaysOrSteps(k)]_vars

\* the second part alone: in the first tick after a pass a robot without a
\* path is still on its start cell
C38_NoPathStaysAtStart ==
    [][(planner = "run" /\ time_step = 0) =>
          \A k \in DOMAIN robots :
              ~returned[robots[k].id].found => robots'[k].pos = robots[k].start]_vars
============================================================================
